---------------------------- MODULE Spec2Model ----------------------------
(***************************************************************************)
(* Model of the dual-transport firmware core: chunk manager, Security1     *)
(* session, MQTT/BLE transports and command router.                        *)
(*                                                                         *)
(* The module holds several specifications over one set of variables; each *)
(* specification exercises one subsystem and leaves the others unchanged:  *)
(*   SpecChunk   chunk_manager_send / chunk_manager_process round trip     *)
(*   SpecBleRx   BLE GATT write path feeding the chunk manager             *)
(*   SpecSec     Security1 session driven by the MQTT transport            *)
(*   SpecCrypto  security1_encrypt / security1_decrypt on an active session*)
(*   SpecRouter  command router and the two TX threads                     *)
(***************************************************************************)
EXTENDS Integers, Sequences, FiniteSets, TLC

(* ------------------------------ bounds -------------------------------- *)

\* payload bytes per chunk (config.max_chunk_size - sizeof(chunk_header_t))
EffectiveSize == 2
\* config.max_concurrent_frames
MaxConcurrentFrames == 2
\* longest frame handed to chunk_manager_send
MaxDataLen == 4
\* number of chunk_manager_send calls
MaxSends == 2
\* number of chunk_manager_process calls fed from the sent chunks
MaxFeeds == 4
MaxReasmTotal == 3
MaxSendSize == 520
MaxSizedSends == 2
ReassemblyTimeout == 2
MaxUptimeSteps == 4
MaxTimeouts == 3
NumSendThreads == 2
NumReportThreads == 2
MaxRecoveries == 3
MaxFailures == 4
MaxChunksPerResponse == 2
\* the MTU a connected client negotiates above the default
PeerMtu == 185
\* heap payloads allocated in one run
MaxAllocs == 2
MaxConsecutiveErrors == 2
RecoveryCooldown == 2
HealthWindow == 3
MaxErrorCount == 4
\* largest total_chunks / chunk_idx value a peer writes is MaxPeerTotal
MaxPeerTotal == 9
\* frame ids a peer uses in written chunks: 0..MaxPeerFrameId
MaxPeerFrameId == 1
\* depth of cmdQueue and of the response queues
QueueDepth == 1
\* calls of transport_mqtt_start_with_security1 / transport_mqtt_start
MaxStarts == 2
\* SESSION_ESTABLISH messages that reach the key generation
MaxEstablish == 2
\* CONFIG_MQTT_BACKOFF_INITIAL_MS and CONFIG_MQTT_BACKOFF_MAX_MS
MqttBackoffInitial == 10
MqttBackoffMax == 40
MaxPlainLen == 2
IvByte == 0
LowBit == 0
HighBit == 7

(* ------------------------- program constants -------------------------- *)

\* transport_ble.c
ADVERTISING_BACKOFF_MAX_MS == 32000
ADVERTISING_BACKOFF_INITIAL_MS == 1000
\* the default BLE ATT MTU and the ATT header overhead
DefaultMtu == 23
AttOverhead == 3
\* the connection handle of no connection, and the handle of the client
BLE_HS_CONN_HANDLE_NONE == 65535
ConnHandle == 1

HeaderSize == 7
CHUNK_FLAG_CHUNKED == 1
CHUNK_FLAG_FINAL == 2
CHUNK_FLAG_MORE == 4
MaxChunksPerFrame == 8

ESP_OK == "ESP_OK"
ESP_FAIL == "ESP_FAIL"
ESP_ERR_NO_MEM == "ESP_ERR_NO_MEM"
ESP_ERR_INVALID_ARG == "ESP_ERR_INVALID_ARG"
ESP_ERR_INVALID_STATE == "ESP_ERR_INVALID_STATE"
ESP_ERR_INVALID_SIZE == "ESP_ERR_INVALID_SIZE"
ESP_ERR_INVALID_MAC == "ESP_ERR_INVALID_MAC"
ESP_ERR_NOT_SUPPORTED == "ESP_ERR_NOT_SUPPORTED"
ESP_ERR_TIMEOUT == "ESP_ERR_TIMEOUT"

\* payload byte values used by the senders of the model
Byte == {0, 1}
\* an indeterminate byte: the content of malloc'ed memory never written
Uninit == 0 - 1

VARIABLES
    cmd_queue,       \* cmdQueue: the decoded commands waiting for the router
    state_mutex,     \* g_security1_ctx.state_mutex: TRUE while another task holds it
    lock_last,       \* history: the last Security1 operation called with its locking
    reasm_last,      \* history: the last direct chunk_manager_process call and its effect
    send_last,       \* history: the last chunk_manager_send call by size, and its result
    uptime_ms,       \* esp_timer_get_time() / 1000: the milliseconds since boot
    stats_timeouts,  \* stats_timeouts
    sweep_last,      \* history: the last chunk_manager_cleanup_expired run
    chunk_mutex,     \* chunk_mutex: the sending thread that holds it, or 0
    send_pc,         \* per sending thread: its position in chunk_manager_send
    send_id,         \* per sending thread: its local frame_id
    alloc_last,      \* history: the last frame id allocated and the one before it
    em_component,    \* components[c] of the error manager, for one component c
    em_last,         \* history: the last error_manager_report call for c
    em_stats,        \* component_stats[c]: the fields the health level reads
    em_reported,     \* history: per severity, the time of the last report of it for c
    error_manager_mutex, \* 0 when free, else the thread that holds it
    report_call,     \* per thread: its place in error_manager_report, the severity, the counter value read
    recovery_attempts,   \* component_stats[c].recovery_attempts
    em_executed,     \* history: the strategies executed so far
    em_access,       \* history: the last access to the registry or the counters
    backoff_last,    \* history: the last broker event and the reconnect state around it
    bp_state,        \* the BLE back-pressure state, last_retry_ms apart
    bp_elapsed,      \* current_time - bp_state.last_retry_ms, up to ElapsedCap
    bp_call,         \* the BLE TX task: its place in notify_resp and send_chunk_with_backpressure
    current_conn,    \* current_conn of transport_ble.c
    negotiated_mtu,  \* negotiated_mtu
    advertising_timer,      \* esp_timer_is_active(advertising_timer)
    advertising_backoff_ms, \* advertising_backoff_ms
    chunk_manager_initialized, \* chunk_manager_initialized of transport_ble.c
    cm_config,       \* chunk_manager.c: initialized and config.max_chunk_size
    gap_last,        \* history: the last BLE host event or transport call
    heap,            \* per payload allocated so far: the number of free() calls on it
    heap_last,       \* history: the last command routed, with its response
    ble_sec1,        \* the Security1 static variables of transport_ble.c
    oper_last,       \* history: the last Security1 call or event of the BLE transport
    g_security1_ctx, \* g_security1_ctx: the Security1 session context
    mqtt,            \* the static variables of transport_mqtt.c and the broker link
    sec_last,        \* history: the last Security1 / MQTT operation and its outcome
    sec_count,       \* history: starts and key generations so far, failed verification
    cm_contexts,     \* contexts[]: the reassembly contexts
    next_frame_id,   \* next_frame_id
    cm_stored,       \* history: per slot, the chunk indices stored since creation
    cm_last,         \* history: what the last chunk_manager_process call did
    tx_frames,       \* history: the frames sent, with the chunks produced
    fed,             \* history: per sent frame, the chunk indices fed so far
    rx_done,         \* history: the completed frames, in order of completion
    nfeeds,          \* history: number of chunks fed from the sent frames
    crypto_last,     \* history: the last encryption or decryption and its outcome
    respQueue_BLE,   \* respQueue_BLE: the responses waiting for the BLE TX task
    respQueue_MQTT,  \* respQueue_MQTT: the responses waiting for the MQTT TX task
    ble_state,       \* ble_state of transport_ble.c
    router_last,     \* history: the last command routed and where its response went
    tx_last          \* history: the last response a TX task took from its queue

chunk_vars == <<cm_contexts, next_frame_id, cm_stored, cm_last, tx_frames, fed,
                rx_done, nfeeds>>

sec_vars == <<g_security1_ctx, mqtt, sec_last, sec_count>>

crypto_vars == <<crypto_last>>

router_vars == <<respQueue_BLE, respQueue_MQTT, ble_state, router_last, tx_last>>

lock_vars == <<state_mutex, lock_last>>

reasm_vars == <<reasm_last>>

send_vars == <<send_last>>

time_vars == <<uptime_ms, stats_timeouts, sweep_last>>

frameid_vars == <<chunk_mutex, send_pc, send_id, alloc_last>>

em_vars == <<em_component, em_last>>

health_vars == <<em_stats, em_reported>>

emlock_vars == <<error_manager_mutex, report_call, recovery_attempts, em_executed, em_access>>

backoff_vars == <<backoff_last>>

bp_vars == <<bp_state, bp_elapsed, bp_call>>

gap_vars == <<current_conn, negotiated_mtu, advertising_timer, advertising_backoff_ms,
              chunk_manager_initialized, cm_config, gap_last>>

heap_vars == <<heap, heap_last>>

oper_vars == <<ble_sec1, oper_last>>

late_vars == <<gap_vars, heap_vars, oper_vars>>

more_vars == <<health_vars, emlock_vars, backoff_vars, bp_vars, late_vars>>

side_vars == <<lock_vars, reasm_vars, send_vars, time_vars, frameid_vars, em_vars, more_vars>>

vars == <<chunk_vars, cmd_queue, sec_vars, crypto_vars, router_vars, side_vars>>

(* ========================= chunk manager ============================== *)

max_chunk_size == HeaderSize + EffectiveSize

Min(a, b) == IF a < b THEN a ELSE b

\* uint8_t truncation
U8(x) == x % 256

\* Millisecond counts are held as two 16-bit halves, value = hi * 65536 + lo:
\* a uint32_t has hi below 65536, the 64-bit uptime has no such limit.
Ms(hi, lo) == [hi |-> hi, lo |-> lo]

\* uint32_t truncation
U32(x) == Ms(x.hi % 65536, x.lo)

\* a + b
MsAdd(a, b) == Ms(a.hi + b.hi + (a.lo + b.lo) \div 65536, (a.lo + b.lo) % 65536)

\* a - b, for a >= b
MsSub(a, b) ==
    IF a.lo >= b.lo THEN Ms(a.hi - b.hi, a.lo - b.lo)
    ELSE Ms(a.hi - b.hi - 1, a.lo + 65536 - b.lo)

\* the uint32_t difference a - b of two uint32_t values
U32Sub(a, b) ==
    IF a.hi > b.hi \/ (a.hi = b.hi /\ a.lo >= b.lo) THEN MsSub(a, b)
    ELSE MsSub(Ms(a.hi + 65536, a.lo), b)

\* get_timestamp_ms: (uint32_t)(esp_timer_get_time() / 1000)
get_timestamp_ms == U32(uptime_ms)

\* a context after calloc or free_context; created_at is history: the
\* uptime at which the context was created, not truncated
FreeContext ==
    [active |-> FALSE, frame_id |-> 0, timestamp_ms |-> Ms(0, 0), chunks_received |-> 0,
     total_chunks |-> 0, expected_size |-> 0, current_size |-> 0, buffer |-> <<>>,
     created_at |-> Ms(0, 0)]

\* a slot search that, with no free slot, hands out the first slot again
find_free_context_evicting(ctxs) ==
    LET free == {i \in 1..MaxConcurrentFrames : ~ctxs[i].active}
    IN  IF free = {} THEN 1 ELSE CHOOSE i \in free : \A j \in free : i <= j

find_free_context(ctxs) ==
    LET free == {i \in 1..MaxConcurrentFrames : ~ctxs[i].active}
    IN  IF free = {} THEN 0 ELSE CHOOSE i \in free : \A j \in free : i <= j

find_context_by_id(ctxs, frame_id) ==
    LET hit == {i \in 1..MaxConcurrentFrames :
                   ctxs[i].active /\ ctxs[i].frame_id = frame_id}
    IN  IF hit = {} THEN 0 ELSE CHOOSE i \in hit : \A j \in hit : i <= j

calculate_chunks_needed(data_size) ==
    LET effective_chunk_size == max_chunk_size - HeaderSize
        chunks == U8((data_size + effective_chunk_size - 1) \div effective_chunk_size)
    IN  IF chunks > 0 THEN chunks ELSE 1

\* the chunk buffers chunk_manager_send builds for `data` under `frame_id`
SendChunks(data, frame_id) ==
    LET chunks_needed == calculate_chunks_needed(Len(data))
        effective_chunk_size == max_chunk_size - HeaderSize
        offset(i) == Min(i * effective_chunk_size, Len(data))
        psize(i) == Min(Len(data) - offset(i), effective_chunk_size)
    IN  [i \in 1..chunks_needed |->
            [flags |-> CHUNK_FLAG_CHUNKED +
                       (IF i - 1 = chunks_needed - 1 THEN CHUNK_FLAG_FINAL
                                                     ELSE CHUNK_FLAG_MORE),
             chunk_idx |-> i - 1,
             total_chunks |-> chunks_needed,
             frame_id |-> frame_id,
             chunk_size |-> psize(i - 1),
             payload |-> SubSeq(data, offset(i - 1) + 1, offset(i - 1) + psize(i - 1))]]

\* chunk_manager_send: the return code and the chunks handed to the caller
chunk_manager_send(data, frame_id) ==
    IF calculate_chunks_needed(Len(data)) > MaxChunksPerFrame
    THEN [ret |-> ESP_ERR_INVALID_SIZE, chunks |-> <<>>]
    ELSE [ret |-> ESP_OK, chunks |-> SendChunks(data, frame_id)]

NextFrameId(id) == IF (id + 1) % 65536 = 0 THEN 1 ELSE (id + 1) % 65536

\* uint8_t chunk_bit = (1 << header->chunk_idx)
ChunkBit(chunk_idx) == U8(2 ^ chunk_idx)

\* uint8_t expected_mask = (1 << ctx->total_chunks) - 1
ExpectedMask(total_chunks) == U8(2 ^ total_chunks - 1)

\* a duplicate test that never finds the bit set
BitTestNever(bitmap, bit) == FALSE

\* ctx->chunks_received & chunk_bit, for a chunk_bit with at most one bit set
BitTest(bitmap, bit) == bit # 0 /\ (bitmap \div bit) % 2 = 1

\* ctx->chunks_received |= chunk_bit
BitOr(bitmap, bit) == IF bit = 0 \/ BitTest(bitmap, bit) THEN bitmap ELSE bitmap + bit

\* memcpy(ctx->buffer + chunk_offset, payload, payload_size)
WriteAt(buffer, chunk_offset, payload) ==
    [k \in 1..Len(buffer) |->
        IF k > chunk_offset /\ k <= chunk_offset + Len(payload)
        THEN payload[k - chunk_offset] ELSE buffer[k]]

\* the frame-complete test of chunk_manager_process
FrameComplete(ctx) == ctx.chunks_received = ExpectedMask(ctx.total_chunks)

\* The final reassembly loop of chunk_manager_process: the first total_chunks-1
\* slices are copied whole, the last one with current_size - actual_size bytes.
\* When current_size is smaller than the fixed slices the copy runs outside
\* complete_frame, when it is larger than the buffer the last slice is read
\* from beyond the buffer (oob); the frame content is then indeterminate.
Reassemble(ctx) ==
    LET effective == max_chunk_size - HeaderSize
        fixed == (ctx.total_chunks - 1) * effective
    IN  IF ctx.current_size < fixed \/ ctx.current_size > Len(ctx.buffer)
        THEN [oob |-> TRUE, frame |-> [k \in 1..ctx.current_size |-> Uninit]]
        ELSE [oob |-> FALSE, frame |-> SubSeq(ctx.buffer, 1, ctx.current_size)]

NoResult ==
    [frame |-> <<>>, frame_size |-> 0, frame_id |-> 0, is_complete |-> FALSE,
     is_duplicate |-> FALSE]

\* chunk_manager_process(chunk_data, chunk_size, result) on a chunk of at least
\* header size.  `c` is the parsed chunk: the header fields and the payload
\* bytes that follow the header (chunk_size - sizeof(header) of them).
\* malloc0_null: whether malloc(0) returns NULL on this build.
\* Yields the return code, the result, the new contexts and, for the history,
\* the slot used, whether the chunk was stored and the indices stored before.
chunk_manager_process(ctxs, stored, c, malloc0_null) ==
    LET effective == max_chunk_size - HeaderSize
        payload_size == c.chunk_size
        fail(code) == [ret |-> code, result |-> NoResult, ctxs |-> ctxs,
                       stored |-> stored, slot |-> 0, stored_now |-> FALSE,
                       idx_before |-> {}, ctx_total |-> 0, oob |-> FALSE]
    IN
    IF payload_size # Len(c.payload) THEN fail(ESP_ERR_INVALID_SIZE)
    ELSE IF c.chunk_idx >= c.total_chunks THEN fail(ESP_ERR_INVALID_ARG)
    ELSE
    LET found == find_context_by_id(ctxs, c.frame_id)
        free == find_free_context(ctxs)
        slot == IF found # 0 THEN found ELSE free
    IN
    IF slot = 0 THEN fail(ESP_ERR_NO_MEM)
    ELSE
    LET ctx0 == IF found # 0 THEN ctxs[slot]
                ELSE [active |-> TRUE, frame_id |-> c.frame_id,
                      timestamp_ms |-> get_timestamp_ms, created_at |-> uptime_ms,
                      chunks_received |-> 0, total_chunks |-> c.total_chunks,
                      expected_size |-> c.total_chunks * effective,
                      current_size |-> 0,
                      buffer |-> [k \in 1..(c.total_chunks * effective) |-> Uninit]]
        st0 == IF found # 0 THEN stored[slot] ELSE {}
        chunk_bit == ChunkBit(c.chunk_idx)
        res0 == [NoResult EXCEPT !.frame_id = c.frame_id]
    IN
    IF BitTest(ctx0.chunks_received, chunk_bit)
    THEN [ret |-> ESP_OK, result |-> [res0 EXCEPT !.is_duplicate = TRUE],
          ctxs |-> [ctxs EXCEPT ![slot] = ctx0],
          stored |-> [stored EXCEPT ![slot] = st0],
          slot |-> slot, stored_now |-> FALSE, idx_before |-> st0,
          ctx_total |-> ctx0.total_chunks, oob |-> FALSE]
    ELSE
    LET chunk_offset == c.chunk_idx * effective
        fits == chunk_offset + payload_size <= ctx0.expected_size
        ctx1 == IF fits
                THEN [ctx0 EXCEPT !.buffer = WriteAt(ctx0.buffer, chunk_offset, c.payload),
                                  !.chunks_received = BitOr(ctx0.chunks_received, chunk_bit),
                                  !.current_size = ctx0.current_size + payload_size]
                ELSE ctx0
        st1 == IF fits THEN st0 \cup {c.chunk_idx} ELSE st0
        complete == FrameComplete(ctx1)
        have_frame == complete /\ ~(ctx1.current_size = 0 /\ malloc0_null)
        asm == Reassemble(ctx1)
    IN  [ret |-> ESP_OK,
         result |-> IF have_frame
                    THEN [res0 EXCEPT !.frame = asm.frame,
                                      !.frame_size = ctx1.current_size,
                                      !.is_complete = TRUE]
                    ELSE res0,
         ctxs |-> [ctxs EXCEPT ![slot] = IF complete THEN FreeContext ELSE ctx1],
         stored |-> [stored EXCEPT ![slot] = IF complete THEN {} ELSE st1],
         slot |-> slot, stored_now |-> fits, idx_before |-> st0,
         ctx_total |-> ctx1.total_chunks, oob |-> have_frame /\ asm.oob]

\* chunk_manager_process when malloc(ctx->expected_size) returns NULL: a chunk
\* of a new frame writes the fields of the free slot, clears active again and
\* fails; a chunk of a known frame allocates no buffer
chunk_manager_process_nomem(ctxs, stored, c) ==
    LET effective == max_chunk_size - HeaderSize
        found == find_context_by_id(ctxs, c.frame_id)
        free == find_free_context(ctxs)
    IN  IF c.chunk_size = Len(c.payload) /\ c.chunk_idx < c.total_chunks
           /\ found = 0 /\ free # 0
        THEN [ret |-> ESP_ERR_NO_MEM, result |-> NoResult,
              ctxs |-> [ctxs EXCEPT ![free] =
                          [FreeContext EXCEPT !.frame_id = c.frame_id,
                                              !.timestamp_ms = get_timestamp_ms,
                                              !.total_chunks = c.total_chunks,
                                              !.expected_size = c.total_chunks * effective]],
              stored |-> stored, slot |-> 0, stored_now |-> FALSE,
              idx_before |-> {}, ctx_total |-> 0, oob |-> FALSE]
        ELSE chunk_manager_process(ctxs, stored, c, FALSE)

NoCall ==
    [ret |-> "none", result |-> NoResult, chunk_idx |-> 0, stored_now |-> FALSE,
     idx_before |-> {}, ctx_total |-> 0, oob |-> FALSE, via |-> "none"]

\* history record of one call; the index supplied, the indices stored before
\* it and the context's total are kept for the calls that completed a frame
CallRecord(r, c, via) ==
    LET done == r.result.is_complete
    IN  [ret |-> r.ret, result |-> r.result,
         chunk_idx |-> IF done THEN c.chunk_idx ELSE 0,
         stored_now |-> r.stored_now,
         idx_before |-> IF done THEN r.idx_before ELSE {},
         ctx_total |-> IF done THEN r.ctx_total ELSE 0,
         oob |-> r.oob, via |-> via]

(* ------------------- send / feed round trip (SpecChunk) --------------- *)

DataSet == UNION {[1..n -> Byte] : n \in 0..MaxDataLen}

\* a caller sends one frame; the chunks produced are kept for feeding
Send(data) ==
    /\ Len(tx_frames) < MaxSends
    /\ LET r == chunk_manager_send(data, next_frame_id)
       IN  /\ IF r.ret = ESP_OK
              THEN /\ next_frame_id' = NextFrameId(next_frame_id)
                   /\ tx_frames' = Append(tx_frames,
                                     [frame_id |-> next_frame_id, data |-> data,
                                      chunks |-> r.chunks])
                   /\ fed' = Append(fed, {})
              ELSE UNCHANGED <<next_frame_id, tx_frames, fed>>
    /\ UNCHANGED <<side_vars, cm_contexts, cm_stored, cm_last, rx_done, nfeeds, cmd_queue, sec_vars, crypto_vars,
                   router_vars>>

\* one chunk of a sent frame is fed to chunk_manager_process (again, possibly)
Feed(f, i) ==
    /\ nfeeds < MaxFeeds
    /\ f \in 1..Len(tx_frames)
    /\ i \in 1..Len(tx_frames[f].chunks)
    /\ LET c == tx_frames[f].chunks[i]
       IN  \E r \in {chunk_manager_process(cm_contexts, cm_stored, c, m) : m \in BOOLEAN} :
           /\ cm_contexts' = r.ctxs
           /\ cm_stored' = r.stored
           /\ cm_last' = CallRecord(r, c, "feed")
           /\ fed' = [fed EXCEPT ![f] = @ \cup {c.chunk_idx}]
           /\ rx_done' = IF r.result.is_complete
                         THEN Append(rx_done, [frame_id |-> r.result.frame_id,
                                               frame |-> r.result.frame,
                                               frame_size |-> r.result.frame_size])
                         ELSE rx_done
           /\ nfeeds' = nfeeds + 1
    /\ UNCHANGED <<side_vars, next_frame_id, tx_frames, cmd_queue, sec_vars, crypto_vars,
                   router_vars>>

\* a session key of 32 zero bytes
ZeroKey == [gen |-> 0, peer |-> 0, pop |-> ""]

\* g_security1_ctx after security1_session_init
InitialCtx ==
    [state |-> "IDLE", framework_initialized |-> TRUE, protocomm_instance |-> FALSE,
     event_callback |-> FALSE, keys_generated |-> FALSE, session_key |-> ZeroKey,
     session_key_valid |-> FALSE, device_public_key |-> 0, device_random |-> 0,
     client_public_key |-> 0, pop_data |-> ""]

\* the statics of transport_mqtt.c after transport_mqtt_init
InitialMqtt ==
    [mqtt_client |-> TRUE, started |-> FALSE, conn |-> FALSE,
     mqtt_state |-> "MQTT_DOWN", security1_session_active |-> FALSE,
     security1_encryption_enabled |-> FALSE, handshake_topics_active |-> FALSE,
     operational_topics_active |-> FALSE, dual_topics |-> FALSE,
     backoff_delay_ms |-> MqttBackoffInitial, reconnect_timer_active |-> FALSE,
     tx_task |-> FALSE]

InitSec ==
    /\ g_security1_ctx = InitialCtx
    /\ mqtt = InitialMqtt
    /\ sec_last = [op |-> "init", ret |-> ESP_OK, published |-> "none", err |-> "none",
                   from_state |-> "IDLE", topic |-> "none", route |-> "none",
                   enqueued |-> FALSE]
    /\ sec_count = [starts |-> 0, estabs |-> 0, verify_failed |-> FALSE]

InitChunk ==
    /\ cm_contexts = [i \in 1..MaxConcurrentFrames |-> FreeContext]
    /\ next_frame_id = 1
    /\ cm_stored = [i \in 1..MaxConcurrentFrames |-> {}]
    /\ cm_last = NoCall
    /\ tx_frames = <<>>
    /\ fed = <<>>
    /\ rx_done = <<>>
    /\ nfeeds = 0

NoCrypto ==
    [op |-> "none", src |-> "none", plain |-> <<>>, buffer |-> 0, part |-> "none",
     key_valid |-> FALSE, active |-> FALSE, ret |-> ESP_OK, out |-> <<>>,
     base_ret |-> ESP_OK]

NoRoute == [op |-> "none", cmd_id |-> 0, cmd_origin |-> 0, resp_id |-> 0,
            resp_origin |-> 0, target |-> "none", queued |-> FALSE]

NoTx == [transport |-> "none", id |-> 0, origin |-> 0, transmitted |-> FALSE,
         secure |-> FALSE, form |-> "none"]

\* no Security1 operation called yet
NoLock == [op |-> "none", busy |-> FALSE, accessed |-> FALSE, held |-> FALSE,
           changed |-> FALSE, ret |-> ESP_OK]

\* security1_session_init creates state_mutex; nobody holds it
InitLock ==
    /\ state_mutex = FALSE
    /\ lock_last = NoLock

\* no direct chunk_manager_process call yet
NoReasm ==
    [called |-> FALSE, ret |-> ESP_OK, bit_set |-> FALSE, full_before |-> FALSE,
     is_duplicate |-> FALSE, is_complete |-> FALSE, stored_now |-> FALSE,
     new_ctx |-> FALSE, kept |-> TRUE]

InitReasm == reasm_last = NoReasm

\* no chunk_manager_send call by size yet
NoSend == [called |-> FALSE, data_size |-> 0, ret |-> ESP_OK, chunk_count |-> 0,
           payload_total |-> 0]

InitSend == send_last = NoSend

\* no sweep yet
NoSweep == [called |-> FALSE, released |-> {}, aged |-> {}, aged_u32 |-> {},
            timeouts |-> 0, others_kept |-> TRUE]

\* the timer starts at boot; stats_timeouts is 0
InitTime ==
    /\ uptime_ms = Ms(0, 0)
    /\ stats_timeouts = 0
    /\ sweep_last = NoSweep

\* the threads that call chunk_manager_send
SendThreads == 1..NumSendThreads

\* chunk_mutex is free, no thread is inside chunk_manager_send
InitFrameId ==
    /\ chunk_mutex = 0
    /\ send_pc = [t \in SendThreads |-> "idle"]
    /\ send_id = [t \in SendThreads |-> 0]
    /\ alloc_last = [prev |-> 0, id |-> 0]

ERROR_SEVERITY_WARNING == 1
ERROR_SEVERITY_ERROR == 2
ERROR_SEVERITY_CRITICAL == 3

\* no report yet
NoReport == [called |-> FALSE, severity |-> 0, attempted |-> FALSE, count_before |-> 0,
             cooldown_elapsed |-> FALSE, enabled |-> FALSE, tried |-> <<>>, ok |-> FALSE,
             escalate |-> FALSE]

\* the component as the transports register it, with
\* error_manager_register_component(component, NULL, NULL, NULL): no recovery
\* callback, escalate_on_failure as in the default configuration
InitErr ==
    /\ em_component = [registered |-> TRUE, auto_recovery_enabled |-> TRUE,
                       escalate_on_failure |-> TRUE, recovery_callback |-> FALSE,
                       consecutive_errors |-> 0,
                       last_recovery_timestamp_ms |-> Ms(0, 0)]
    /\ em_last = NoReport

ERROR_SEVERITY_INFO == 0

Severities == {ERROR_SEVERITY_WARNING, ERROR_SEVERITY_ERROR, ERROR_SEVERITY_CRITICAL}

\* no report of a severity yet
Never == Ms(Uninit, 0)

\* component_stats[] after the memset of error_manager_init: no error counted
ZeroStats == [last_error_timestamp_ms |-> Ms(0, 0), errors_by_severity |-> {}]

InitHealth ==
    /\ em_stats = ZeroStats
    /\ em_reported = [s \in Severities |-> Never]

ReportThreads == 1..NumReportThreads

\* a thread outside error_manager_report
NoReportCall == [pc |-> "idle", severity |-> 0, recovery |-> 0, read |-> 0]

\* no access yet
NoAccess == [field |-> "none", held |-> TRUE]

InitErrLock ==
    /\ error_manager_mutex = 0
    /\ report_call = [t \in ReportThreads |-> NoReportCall]
    /\ recovery_attempts = 0
    /\ em_executed = 0
    /\ em_access = NoAccess

\* no broker event yet
NoEvent == [event |-> "none", delay_before |-> 0, timer_before |-> FALSE,
            delay_after |-> 0, timer_after |-> FALSE, failures |-> 0]

InitBackoff == backoff_last = NoEvent

\* static backpressure_state_t bp_state = {0}
InitBp ==
    /\ bp_state = [retry_count |-> 0, backoff_delay_ms |-> 0, consecutive_failures |-> 0,
                   circuit_breaker_open |-> FALSE]
    /\ bp_elapsed = 0
    /\ bp_call = [pc |-> "idle", attempts |-> 0, remaining |-> 0]

InitCrypto == crypto_last = NoCrypto

\* the queues of app_main are empty; ble_state is BLE_DOWN until the host syncs
InitRouter ==
    /\ respQueue_BLE = <<>>
    /\ respQueue_MQTT = <<>>
    /\ ble_state = "BLE_DOWN"
    /\ router_last = NoRoute
    /\ tx_last = NoTx

NoGap == [op |-> "none", failed |-> FALSE]

\* a NULL payload pointer
NullPayload == 0

NoHeapRoute == [op |-> "none", cmd_op |-> "none", cmd_id |-> 0, cmd_origin |-> "none",
                cmd_payload |-> NullPayload, cmd_freed |-> FALSE, queued |-> 0,
                resp |-> <<>>]

\* no payload allocated, nothing routed
InitHeap ==
    /\ heap = <<>>
    /\ heap_last = NoHeapRoute

\* nothing called, no event delivered
NoOper == [op |-> "none", state |-> "IDLE", ret |-> "none", self_wait |-> FALSE]

\* the Security1 static variables of transport_ble.c at boot: security1_mutex
\* is NULL, the session has no callback of the BLE transport
InitOper ==
    /\ ble_sec1 = [security1_mutex |-> FALSE, security1_enabled |-> FALSE,
                   security1_state |-> "IDLE", handshake_service_active |-> FALSE,
                   operational_service_active |-> FALSE, fallback_to_legacy |-> FALSE,
                   event_callback |-> FALSE]
    /\ oper_last = NoOper

\* the static variables of transport_ble.c after transport_ble_init, and
\* the chunk manager before its first chunk_manager_init
InitGap ==
    /\ current_conn = BLE_HS_CONN_HANDLE_NONE
    /\ negotiated_mtu = DefaultMtu
    /\ advertising_timer = FALSE
    /\ advertising_backoff_ms = ADVERTISING_BACKOFF_INITIAL_MS
    /\ chunk_manager_initialized = FALSE
    /\ cm_config = [initialized |-> FALSE, max_chunk_size |-> 0]
    /\ gap_last = NoGap

Init ==
    /\ InitChunk
    /\ cmd_queue = <<>>
    /\ InitSec
    /\ InitLock
    /\ InitReasm
    /\ InitSend
    /\ InitTime
    /\ InitFrameId
    /\ InitErr
    /\ InitHealth
    /\ InitErrLock
    /\ InitBackoff
    /\ InitBp
    /\ InitGap
    /\ InitHeap
    /\ InitOper
    /\ InitCrypto
    /\ InitRouter

NextChunk ==
    \/ \E data \in DataSet : Send(data)
    \/ \E f \in 1..MaxSends, i \in 1..MaxChunksPerFrame : Feed(f, i)

SpecChunk == Init /\ [][NextChunk]_vars

\* the completions recorded for a frame id
Completions(frame_id) == {k \in 1..Len(rx_done) : rx_done[k].frame_id = frame_id}

AllFed(f) == fed[f] = 0..(Len(tx_frames[f].chunks) - 1)

\* C1: once every chunk produced by chunk_manager_send for a non-empty frame
\* has been fed to chunk_manager_process, in whatever order and with whatever
\* duplicates, exactly one call has reported is_complete for that frame, and
\* the completed frame has the size and the bytes of the input.
C1_RoundTripExactlyOnce ==
    \A f \in 1..Len(tx_frames) :
        (AllFed(f) /\ Len(tx_frames[f].data) > 0) =>
            /\ Cardinality(Completions(tx_frames[f].frame_id)) = 1
            /\ \A k \in Completions(tx_frames[f].frame_id) :
                   /\ rx_done[k].frame_size = Len(tx_frames[f].data)
                   /\ rx_done[k].frame = tx_frames[f].data

(* ------------------- BLE write path (SpecBleRx) ----------------------- *)

ORIGIN_BLE == "ORIGIN_BLE"
ORIGIN_MQTT == "ORIGIN_MQTT"
ORIGIN_USB == "ORIGIN_USB"

\* the one byte value a BLE peer puts in chunk payloads
PeerByte == 1

LE16(x) == <<x % 256, x \div 256>>

\* the bytes of a written chunk: the packed chunk_header_t, then the payload
ChunkBytes(c) ==
    <<c.flags, c.chunk_idx, c.total_chunks>> \o LE16(c.frame_id)
        \o LE16(c.chunk_size) \o c.payload

\* cmd.op as the router compares it: the three known names or anything else
OpOf(bytes) ==
    IF bytes = <<119, 105, 102, 105, 83, 99, 97, 110>> THEN "wifiScan"
    ELSE IF bytes = <<115, 121, 110, 99, 83, 99, 104, 101, 100, 117, 108, 101>>
    THEN "syncSchedule"
    ELSE IF bytes = <<119, 105, 102, 105, 67, 111, 110, 102, 105, 103, 117, 114, 101>>
    THEN "wifiConfigure"
    ELSE "other"

\* decode_ble_frame(data, len, out): id is little endian, then opLen, then op.
\* A header byte that was never written makes the outcome indeterminate:
\* `garbage_ok` is the outcome chosen for that case.
decode_ble_frame(data, garbage_ok) ==
    LET len == Len(data)
        bad == [ok |-> FALSE, id |-> 0, op |-> "other", len |-> 0]
    IN  IF len < 3 THEN bad
        ELSE IF \E k \in 1..3 : data[k] = Uninit
        THEN (IF garbage_ok THEN [ok |-> TRUE, id |-> 0, op |-> "other", len |-> 0]
                            ELSE bad)
        ELSE LET opLen == data[3]
             IN  IF opLen = 0 \/ opLen > 15 \/ 3 + opLen > len THEN bad
                 ELSE [ok |-> TRUE, id |-> data[1] + 256 * data[2],
                       op |-> OpOf(SubSeq(data, 4, 3 + opLen)),
                       len |-> len - (3 + opLen)]

\* xQueueSend(queue, item, 0): the item is dropped when the queue is full
xQueueSend(queue, item) ==
    IF Len(queue) < QueueDepth THEN Append(queue, item) ELSE queue

\* a chunk detection that accepts any non-zero total_chunks
is_chunk_any_total(header) ==
    /\ (header.flags \div CHUNK_FLAG_CHUNKED) % 2 = 1
    /\ header.chunk_idx < 8
    /\ header.total_chunks > 0
    /\ header.frame_id # 0
    /\ header.chunk_size <= max_chunk_size - HeaderSize

\* the chunk detection of gatt_chr_access_cb
is_chunk(header) ==
    /\ (header.flags \div CHUNK_FLAG_CHUNKED) % 2 = 1
    /\ header.chunk_idx < 8
    /\ header.total_chunks > 0 /\ header.total_chunks <= 8
    /\ header.frame_id # 0
    /\ header.chunk_size <= max_chunk_size - HeaderSize

PeerPayload(n) == [k \in 1..n |-> PeerByte]

\* What a connected peer may write to the RX characteristic: full-size writes
\* flagged as chunks with any index and total; writes whose size field or
\* length is off by one; writes that are not chunks (no flag, frame id 0).
PeerWrites ==
    [flags : {CHUNK_FLAG_CHUNKED + CHUNK_FLAG_MORE}, chunk_idx : 0..(MaxPeerTotal - 1),
     total_chunks : 0..MaxPeerTotal, frame_id : 1..MaxPeerFrameId,
     chunk_size : {EffectiveSize}, payload : {PeerPayload(EffectiveSize)}]
    \cup
    [flags : {CHUNK_FLAG_CHUNKED + CHUNK_FLAG_MORE}, chunk_idx : {0},
     total_chunks : {1}, frame_id : {1},
     chunk_size : {EffectiveSize, EffectiveSize + 1},
     payload : {PeerPayload(EffectiveSize + 1)}]
    \cup
    [flags : {0, CHUNK_FLAG_CHUNKED + CHUNK_FLAG_MORE}, chunk_idx : {0},
     total_chunks : {1}, frame_id : {0, 1}, chunk_size : {EffectiveSize},
     payload : {PeerPayload(EffectiveSize)}]

\* gatt_chr_access_cb, BLE_GATT_ACCESS_OP_WRITE_CHR, with the chunk manager
\* initialized and a write of at least sizeof(chunk_header_t) bytes
GattWrite(w) ==
    IF is_chunk(w)
    THEN \E r \in {chunk_manager_process(cm_contexts, cm_stored, w, m) : m \in BOOLEAN} :
         \E f \in {decode_ble_frame(r.result.frame, g) : g \in BOOLEAN} :
             /\ cm_contexts' = r.ctxs
             /\ cm_stored' = r.stored
             /\ cm_last' = CallRecord(r, w, "gatt")
             /\ cmd_queue' = IF r.ret = ESP_OK /\ r.result.is_complete /\ f.ok
                             THEN xQueueSend(cmd_queue,
                                    [id |-> f.id, op |-> f.op, origin |-> ORIGIN_BLE])
                             ELSE cmd_queue
             /\ UNCHANGED <<side_vars, next_frame_id, tx_frames, fed, rx_done, nfeeds, sec_vars, crypto_vars,
                   router_vars>>
    ELSE \E f \in {decode_ble_frame(ChunkBytes(w), g) : g \in BOOLEAN} :
             /\ cmd_queue' = IF f.ok
                             THEN xQueueSend(cmd_queue,
                                    [id |-> f.id, op |-> f.op, origin |-> ORIGIN_BLE])
                             ELSE cmd_queue
             /\ cm_last' = [NoCall EXCEPT !.via = "direct"]
             /\ UNCHANGED <<cm_contexts, cm_stored, next_frame_id, tx_frames, fed,
                            side_vars, rx_done, nfeeds, sec_vars, crypto_vars,
                   router_vars>>

NextBleRx == \E w \in PeerWrites : GattWrite(w)

SpecBleRx == Init /\ [][NextBleRx]_vars

\* C2: a call of chunk_manager_process made by the GATT write handler reports
\* is_complete only if it supplied an index not stored before and, with it,
\* all indices 0..total_chunks-1 of the frame have been stored.
C2_CompleteOnlyWhenAllReceived ==
    cm_last.result.is_complete =>
        /\ cm_last.chunk_idx \notin cm_last.idx_before
        /\ cm_last.idx_before \cup {cm_last.chunk_idx} = 0..(cm_last.ctx_total - 1)

\* an eight-chunk frame completed by the arrival of its chunk 0
C2_Witness ==
    /\ cm_last.via = "gatt"
    /\ cm_last.result.is_complete
    /\ cm_last.ctx_total = MaxChunksPerFrame
    /\ cm_last.chunk_idx = 0
    /\ cm_last.idx_before = 1..(MaxChunksPerFrame - 1)

(* ====================== Security1 cryptography ======================== *)
(* Bytes that pass through the cipher are cells [v, ks, mac]: the byte is   *)
(* v XOR the AES-CTR keystream bytes named in ks XOR the HMAC byte named in *)
(* mac.  A literal byte has ks = {} and mac = <<>>.  HMAC-SHA256 and        *)
(* AES-256-CTR are ideal: a keystream or HMAC byte equals no literal and no *)
(* byte computed from another key, IV, message or position.                 *)

SECURITY1_AES_IV_SIZE == 16
SECURITY1_HMAC_SIZE == 32
SECURITY1_ENCRYPTION_OVERHEAD == 64

Lit(v) == [v |-> v, ks |-> {}, mac |-> <<>>]

IsLit(c) == c.ks = {} /\ c.mac = <<>>

\* v XOR (1 << bit) on a byte
BitXor8(v, bit) == IF (v \div (2 ^ bit)) % 2 = 1 THEN v - 2 ^ bit ELSE v + 2 ^ bit

\* one bit of the byte at position pos (1-based) inverted
FlipBit(bytes, pos, bit) == [bytes EXCEPT ![pos].v = BitXor8(@, bit)]

\* mbedtls_md_hmac_starts/update/finish: the 32 bytes of HMAC-SHA256(key, msg)
Hmac(key, msg) ==
    [i \in 1..SECURITY1_HMAC_SIZE |-> [v |-> 0, ks |-> {}, mac |-> <<key, msg, i>>]]

\* mbedtls_aes_crypt_ctr: XOR with the keystream of (key, iv); applying it
\* twice with the same key and IV gives back the input
AesCtr(key, iv, data) ==
    [p \in 1..Len(data) |->
        [data[p] EXCEPT !.ks = (@ \ {<<key, iv, p>>}) \cup ({<<key, iv, p>>} \ @)]]

\* esp_fill_random(buf, n) when the generator yields the byte b each time
RandomBytes(n, b) == [i \in 1..n |-> Lit(b)]

security1_get_encrypted_size(plaintext_length) ==
    SECURITY1_AES_IV_SIZE + plaintext_length + SECURITY1_HMAC_SIZE

security1_get_decrypted_size(ciphertext_length) ==
    IF ciphertext_length <= SECURITY1_AES_IV_SIZE + SECURITY1_HMAC_SIZE THEN 0
    ELSE ciphertext_length - SECURITY1_AES_IV_SIZE - SECURITY1_HMAC_SIZE

\* security1_crypto_encrypt_internal(plaintext, len, ciphertext, &ciphertext_len):
\* random IV, then the plaintext copied, then 32 bytes 0xAA
security1_crypto_encrypt_internal(plaintext, ciphertext_len, iv_byte) ==
    IF ciphertext_len < Len(plaintext) + SECURITY1_ENCRYPTION_OVERHEAD
    THEN [ret |-> ESP_ERR_INVALID_SIZE, ciphertext |-> <<>>]
    ELSE [ret |-> ESP_OK,
          ciphertext |-> RandomBytes(SECURITY1_AES_IV_SIZE, iv_byte) \o plaintext
                         \o [i \in 1..SECURITY1_HMAC_SIZE |-> Lit(170)]]

\* a decryption that does not compare the MAC
decrypt_internal_unchecked(ciphertext, plaintext_len, session_key) ==
    LET overhead == SECURITY1_AES_IV_SIZE + SECURITY1_HMAC_SIZE
        iv == SubSeq(ciphertext, 1, SECURITY1_AES_IV_SIZE)
        encrypted_data == SubSeq(ciphertext, overhead + 1, Len(ciphertext))
    IN  IF Len(ciphertext) <= overhead \/ plaintext_len < Len(ciphertext) - overhead
        THEN [ret |-> ESP_ERR_INVALID_SIZE, plaintext |-> <<>>]
        ELSE [ret |-> ESP_OK, plaintext |-> AesCtr(session_key, iv, encrypted_data)]

\* security1_crypto_decrypt_internal(ciphertext, len, plaintext, &plaintext_len):
\* layout [IV:16][MAC:32][data:N]; HMAC over IV and data, then AES-CTR.
\* plaintext is what was written to the output buffer (<<>>: nothing).
security1_crypto_decrypt_internal(ciphertext, plaintext_len, session_key) ==
    LET overhead == SECURITY1_AES_IV_SIZE + SECURITY1_HMAC_SIZE
        iv == SubSeq(ciphertext, 1, SECURITY1_AES_IV_SIZE)
        mac == SubSeq(ciphertext, SECURITY1_AES_IV_SIZE + 1, overhead)
        encrypted_data == SubSeq(ciphertext, overhead + 1, Len(ciphertext))
    IN  IF Len(ciphertext) <= overhead
        THEN [ret |-> ESP_ERR_INVALID_SIZE, plaintext |-> <<>>]
        ELSE IF plaintext_len < Len(encrypted_data)
        THEN [ret |-> ESP_ERR_INVALID_SIZE, plaintext |-> <<>>]
        ELSE IF mac # Hmac(session_key, iv \o encrypted_data)
        THEN [ret |-> ESP_ERR_INVALID_MAC, plaintext |-> <<>>]
        ELSE [ret |-> ESP_OK, plaintext |-> AesCtr(session_key, iv, encrypted_data)]

\* a peer's encryption in the layout security1_crypto_decrypt_internal reads
PeerEncrypt(key, iv_byte, plaintext) ==
    LET iv == RandomBytes(SECURITY1_AES_IV_SIZE, iv_byte)
        enc == AesCtr(key, iv, plaintext)
    IN  iv \o Hmac(key, iv \o enc) \o enc

(* ====================== Security1 session ============================= *)

SessionStates ==
    <<"IDLE", "TRANSPORT_STARTING", "TRANSPORT_READY", "HANDSHAKE_PENDING",
      "HANDSHAKE_COMPLETE", "SESSION_ACTIVE", "ERROR", "STOPPING">>

\* position of a state in security1_session_state_t
Rank(state) == CHOOSE i \in 1..Len(SessionStates) : SessionStates[i] = state

\* the PoP compiled into security1_process_handshake_message
HardcodedPop == "test_pop_12345"

\* security1_compute_curve25519_shared_secret, then
\* security1_derive_session_key_authentic: curve25519_result XOR SHA256(PoP).
\* gen names the device key pair, peer the client public key.
DeriveKey(gen, peer, pop) == [gen |-> gen, peer |-> peer, pop |-> pop]

\* transport_mqtt_transition_to_operational; sub_ok: the subscribe succeeds
transport_mqtt_transition_to_operational(mq, sub_ok) ==
    IF ~mq.mqtt_client THEN [ret |-> ESP_ERR_INVALID_STATE, mq |-> mq]
    ELSE IF ~sub_ok THEN [ret |-> ESP_FAIL, mq |-> mq]
    ELSE [ret |-> ESP_OK,
          mq |-> [mq EXCEPT !.operational_topics_active = TRUE,
                            !.handshake_topics_active = FALSE]]

\* transport_mqtt_security1_event_callback(state, user_data);
\* security1_config.fallback_to_legacy is false
transport_mqtt_security1_event_callback(mq, state, sub_ok) ==
    CASE state = "TRANSPORT_READY" ->
            [mq EXCEPT !.mqtt_state = "MQTT_SECURITY1_HANDSHAKE",
                       !.handshake_topics_active = TRUE]
      [] state = "HANDSHAKE_PENDING" ->
            [mq EXCEPT !.mqtt_state = "MQTT_SECURITY1_HANDSHAKE"]
      [] state = "HANDSHAKE_COMPLETE" ->
            LET t == transport_mqtt_transition_to_operational(mq, sub_ok)
            IN  IF t.ret = ESP_OK
                THEN [t.mq EXCEPT !.mqtt_state = "MQTT_OPERATIONAL",
                                  !.operational_topics_active = TRUE,
                                  !.security1_session_active = TRUE]
                ELSE [t.mq EXCEPT !.mqtt_state = "MQTT_DOWN"]
      [] state = "SESSION_ACTIVE" ->
            [mq EXCEPT !.mqtt_state = "MQTT_ENCRYPTED_COMM",
                       !.security1_encryption_enabled = TRUE]
      [] state = "STOPPING" ->
            [mq EXCEPT !.security1_session_active = FALSE,
                       !.security1_encryption_enabled = FALSE,
                       !.mqtt_state = "MQTT_DOWN"]
      [] state = "ERROR" ->
            [mq EXCEPT !.mqtt_state = "MQTT_DOWN",
                       !.security1_session_active = FALSE,
                       !.security1_encryption_enabled = FALSE]
      [] OTHER -> mq

\* security1_session_transition_state(new_state) on st = [ctx, mq]: the
\* assignment and the external event callback
security1_session_transition_state(st, new_state, sub_ok) ==
    [ctx |-> [st.ctx EXCEPT !.state = new_state],
     mq |-> IF st.ctx.event_callback
            THEN transport_mqtt_security1_event_callback(st.mq, new_state, sub_ok)
            ELSE st.mq]

StartOutcomes == {"ok", "no_protocomm", "setup_failed", "handshake_start_failed"}

\* security1_session_start_transport; outcome: which of protocomm_new,
\* security1_session_setup_protocomm and handshake_mqtt_start fails, if any
security1_session_start_transport(st, outcome) ==
    CASE outcome = "no_protocomm" -> [ret |-> ESP_ERR_NO_MEM, st |-> st]
      [] outcome = "setup_failed" ->
            [ret |-> ESP_FAIL, st |-> [st EXCEPT !.ctx.protocomm_instance = FALSE]]
      [] outcome = "handshake_start_failed" ->
            [ret |-> ESP_FAIL, st |-> [st EXCEPT !.ctx.protocomm_instance = TRUE]]
      [] OTHER ->
            [ret |-> ESP_OK,
             st |-> security1_session_transition_state(
                        [st EXCEPT !.ctx.protocomm_instance = TRUE],
                        "TRANSPORT_READY", TRUE)]

\* security1_session_start with valid parameters and the MQTT callback
security1_session_start(st, proof_of_possession, outcome) ==
    IF ~st.ctx.framework_initialized THEN [ret |-> ESP_ERR_INVALID_STATE, st |-> st]
    ELSE IF st.ctx.state # "IDLE" THEN [ret |-> ESP_ERR_INVALID_STATE, st |-> st]
    ELSE LET st1 == security1_session_transition_state(
                        [st EXCEPT !.ctx.event_callback = TRUE,
                                   !.ctx.pop_data = proof_of_possession],
                        "TRANSPORT_STARTING", TRUE)
         IN  security1_session_start_transport(st1, outcome)

\* security1_session_stop, the state mutex being free
security1_session_stop(st) ==
    IF ~st.ctx.framework_initialized THEN st
    ELSE LET st1 == security1_session_transition_state(st, "STOPPING", TRUE)
             st2 == [st1 EXCEPT !.ctx.protocomm_instance = FALSE,
                                !.ctx.session_key_valid = FALSE,
                                !.ctx.session_key = ZeroKey]
         IN  security1_session_transition_state(st2, "IDLE", TRUE)

\* security1_verify_pop_proof_authentic(session_key, device_public_key, token):
\* the token is AES-CTR decrypted with the session key and device_random as
\* IV and compared with the device public key.  A token is the encryption
\* of `plain` under `key` with IV `iv`.
security1_verify_pop_proof_authentic(ctx, token) ==
    LET opens == token.key = ctx.session_key /\ token.iv = ctx.device_random
    IN  IF opens /\ token.plain = ctx.device_public_key THEN ESP_OK ELSE ESP_FAIL

\* transport_mqtt_publish_handshake_response; pub_ok: esp_mqtt_client_publish
\* returns a message id
transport_mqtt_publish_handshake_response(mq, pub_ok) ==
    IF ~mq.mqtt_client THEN ESP_ERR_INVALID_STATE
    ELSE IF ~pub_ok THEN ESP_FAIL
    ELSE ESP_OK

HsResult(ret, st, published, err) ==
    [ret |-> ret, st |-> st, published |-> published, err |-> err]

\* security1_process_handshake_message(handshake_data, data_length, topic).
\* msg: the fields read from handshake_data; env: the outcome of the key
\* generation steps, of the publish and of the operational subscribe;
\* n: the identity of the random bytes and key pair generated by this call.
security1_process_handshake_message(st, msg, env, n) ==
    IF msg.data_length = 0 THEN HsResult(ESP_ERR_INVALID_ARG, st, "none", "reject")
    ELSE IF st.ctx.state = "IDLE" THEN HsResult(ESP_ERR_INVALID_STATE, st, "none", "reject")
    ELSE IF ~st.ctx.protocomm_instance
    THEN HsResult(ESP_ERR_INVALID_STATE, st, "none", "reject")
    ELSE IF msg.data_length < 3 THEN HsResult(ESP_ERR_INVALID_ARG, st, "none", "reject")
    ELSE IF msg.version # 1 THEN HsResult(ESP_ERR_NOT_SUPPORTED, st, "none", "reject")
    ELSE IF msg.msg_type # 1 /\ msg.msg_type # 2
    THEN HsResult(ESP_ERR_INVALID_ARG, st, "none", "reject")
    ELSE IF msg.msg_type = 2
    THEN \* SESSION_VERIFY: payload_len is bytes 2..3, big endian
         IF msg.data_length < 4 \/ msg.data_length < 4 + msg.field
         THEN HsResult(ESP_ERR_INVALID_ARG, st, "none", "reject")
         ELSE IF msg.field # 32 THEN HsResult(ESP_ERR_INVALID_ARG, st, "none", "reject")
         ELSE IF ~st.ctx.keys_generated
         THEN HsResult(ESP_ERR_INVALID_STATE, st, "none", "reject")
         ELSE IF security1_verify_pop_proof_authentic(st.ctx, msg.token) # ESP_OK
         THEN HsResult(ESP_FAIL, st, "none", "verify")
         ELSE LET publish_ret == transport_mqtt_publish_handshake_response(st.mq, env.pub_ok)
              IN  IF publish_ret # ESP_OK THEN HsResult(publish_ret, st, "none", "publish")
                  ELSE HsResult(ESP_OK,
                         security1_session_transition_state(
                             security1_session_transition_state(
                                 st, "HANDSHAKE_COMPLETE", env.sub_ok),
                             "SESSION_ACTIVE", env.sub_ok),
                         "verify", "none")
    ELSE \* SESSION_ESTABLISH: key_len is byte 2
         IF msg.field # 32 THEN HsResult(ESP_ERR_INVALID_ARG, st, "none", "reject")
         ELSE IF msg.data_length < 3 + msg.field
         THEN HsResult(ESP_ERR_INVALID_ARG, st, "none", "reject")
         ELSE
         LET st1 == [st EXCEPT !.ctx.device_random = n]
         IN  IF env.keygen = "keygen_failed" THEN HsResult(ESP_FAIL, st1, "none", "keygen")
             ELSE
             LET st2 == [st1 EXCEPT !.ctx.device_public_key = n,
                                    !.ctx.client_public_key = msg.key,
                                    !.ctx.keys_generated = TRUE]
             IN  IF env.keygen = "shared_failed"
                 THEN HsResult(ESP_FAIL, st2, "none", "keygen")
                 ELSE IF env.keygen = "derive_failed"
                 THEN HsResult(ESP_FAIL, st2, "none", "derive")
                 ELSE
                 LET st3 == [st2 EXCEPT !.ctx.session_key =
                                           DeriveKey(n, msg.key, HardcodedPop),
                                        !.ctx.session_key_valid = TRUE]
                     publish_ret == transport_mqtt_publish_handshake_response(
                                        st3.mq, env.pub_ok)
                 IN  IF publish_ret # ESP_OK
                     THEN HsResult(publish_ret, st3, "none", "publish")
                     ELSE HsResult(ESP_OK,
                            security1_session_transition_state(
                                st3, "HANDSHAKE_PENDING", env.sub_ok),
                            "establish", "none")

\* security1_decrypt(ciphertext, plaintext) with a plaintext buffer of
\* plaintext_length bytes, the state mutex being free
security1_decrypt(ctx, ciphertext, plaintext_length) ==
    IF Len(ciphertext) = 0 THEN [ret |-> ESP_ERR_INVALID_ARG, plaintext |-> <<>>]
    ELSE IF ~ctx.session_key_valid
    THEN [ret |-> ESP_ERR_INVALID_STATE, plaintext |-> <<>>]
    ELSE IF plaintext_length < security1_get_decrypted_size(Len(ciphertext))
    THEN [ret |-> ESP_ERR_INVALID_SIZE, plaintext |-> <<>>]
    ELSE security1_crypto_decrypt_internal(
             ciphertext, security1_get_decrypted_size(Len(ciphertext)), ctx.session_key)

\* security1_encrypt(plaintext, ciphertext) with a ciphertext buffer of
\* ciphertext_length bytes, the state mutex being free
security1_encrypt(ctx, plaintext, ciphertext_length, iv_byte) ==
    IF Len(plaintext) = 0 THEN [ret |-> ESP_ERR_INVALID_ARG, ciphertext |-> <<>>]
    ELSE IF ctx.state # "SESSION_ACTIVE" \/ ~ctx.session_key_valid
    THEN [ret |-> ESP_ERR_INVALID_STATE, ciphertext |-> <<>>]
    ELSE IF ciphertext_length < security1_get_encrypted_size(Len(plaintext))
    THEN [ret |-> ESP_ERR_INVALID_SIZE, ciphertext |-> <<>>]
    ELSE security1_crypto_encrypt_internal(
             plaintext, security1_get_encrypted_size(Len(plaintext)), iv_byte)

(* ====================== MQTT transport (SpecSec) ====================== *)

\* the four kinds of topic an inbound PUBLISH can carry
Topics == {"handshake_rx", "operational_rx", "legacy_cmd", "other"}

\* stand-in for the JSON text {"id":<id>,"op":"<op>"}: '{', id, op code, '}'
JsonText(id, opcode) == <<Lit(123), Lit(id), Lit(opcode), Lit(125)>>

JsonOp(opcode) ==
    CASE opcode = 1 -> "syncSchedule"
      [] opcode = 2 -> "wifiScan"
      [] opcode = 3 -> "wifiConfigure"
      [] OTHER -> "other"

\* decode_json_command(json_data, len, out)
decode_json_command(data) ==
    IF /\ Len(data) = 4
       /\ \A k \in 1..4 : IsLit(data[k])
       /\ data[1].v = 123 /\ data[4].v = 125
    THEN [ok |-> TRUE, id |-> data[2].v, op |-> JsonOp(data[3].v)]
    ELSE [ok |-> FALSE, id |-> 0, op |-> "other"]

\* schedule_reconnect without the limit CONFIG_MQTT_BACKOFF_MAX_MS
schedule_reconnect_unlimited(mq) ==
    IF mq.reconnect_timer_active THEN mq
    ELSE [mq EXCEPT !.reconnect_timer_active = TRUE,
                    !.backoff_delay_ms = mq.backoff_delay_ms * 2]

\* schedule_reconnect without the test esp_timer_is_active(reconnect_timer)
schedule_reconnect_again(mq) ==
    [mq EXCEPT !.reconnect_timer_active = TRUE,
               !.backoff_delay_ms = IF mq.backoff_delay_ms * 2 > MqttBackoffMax
                                    THEN MqttBackoffMax
                                    ELSE mq.backoff_delay_ms * 2]

\* schedule_reconnect
schedule_reconnect(mq) ==
    IF mq.reconnect_timer_active THEN mq
    ELSE [mq EXCEPT !.reconnect_timer_active = TRUE,
                    !.backoff_delay_ms = IF mq.backoff_delay_ms * 2 > MqttBackoffMax
                                         THEN MqttBackoffMax
                                         ELSE mq.backoff_delay_ms * 2]

St == [ctx |-> g_security1_ctx, mq |-> mqtt]

SecLast(op, ret, published, err) ==
    [op |-> op, ret |-> ret, published |-> published, err |-> err,
     from_state |-> g_security1_ctx.state, topic |-> "none", route |-> "none",
     enqueued |-> FALSE]

\* transport_mqtt_start_with_security1(cmdQueue, respQueue, sec1_config).
\* client_init_ok, client_start_ok, task_ok: esp_mqtt_client_init,
\* esp_mqtt_client_start and xTaskCreate succeed.
\* pop: sec1_config->proof_of_possession.
MqttStartWithPop(pop, outcome, client_init_ok, client_start_ok, task_ok) ==
    /\ sec_count.starts < MaxStarts
    /\ ~mqtt.started
    /\ LET mq0 == [mqtt EXCEPT !.dual_topics = TRUE, !.mqtt_client = client_init_ok]
           r == security1_session_start([ctx |-> g_security1_ctx, mq |-> mq0], pop,
                                        outcome)
           res == IF ~client_init_ok
                  THEN [ret |-> ESP_FAIL, st |-> [ctx |-> g_security1_ctx, mq |-> mq0],
                        err |-> "none"]
                  ELSE IF r.ret # ESP_OK
                  THEN [ret |-> r.ret, st |-> [r.st EXCEPT !.mq.mqtt_client = FALSE],
                        err |-> IF g_security1_ctx.state # "IDLE" THEN "none"
                                ELSE "transport_start"]
                  ELSE IF ~client_start_ok
                  THEN [ret |-> ESP_FAIL, st |-> security1_session_stop(r.st),
                        err |-> "none"]
                  ELSE IF ~task_ok
                  THEN [ret |-> ESP_FAIL, st |-> security1_session_stop(r.st),
                        err |-> "none"]
                  ELSE [ret |-> ESP_OK,
                        st |-> [r.st EXCEPT !.mq.started = TRUE, !.mq.tx_task = TRUE],
                        err |-> "none"]
       IN  /\ g_security1_ctx' = res.st.ctx
           /\ mqtt' = res.st.mq
           /\ sec_last' = SecLast("start", res.ret, "none", res.err)
           /\ sec_count' = [sec_count EXCEPT
                  !.starts = @ + 1,
                  !.verify_failed = IF client_init_ok /\ g_security1_ctx.state = "IDLE"
                                    THEN FALSE ELSE @]
    /\ UNCHANGED <<side_vars, chunk_vars, crypto_vars, router_vars, cmd_queue>>

\* the PoP that app_main puts into sec1_config
AppPop == "test_pop_12345"

\* transport_mqtt_start_with_security1 as app_main calls it
MqttStartWithSecurity1(outcome, client_init_ok, client_start_ok, task_ok) ==
    MqttStartWithPop(AppPop, outcome, client_init_ok, client_start_ok, task_ok)

\* transport_mqtt_start: the legacy start
MqttStartLegacy(client_start_ok, task_ok) ==
    /\ sec_count.starts < MaxStarts
    /\ ~mqtt.started
    /\ mqtt.mqtt_client
    /\ mqtt' = IF client_start_ok
               THEN [mqtt EXCEPT !.started = TRUE, !.tx_task = task_ok]
               ELSE mqtt
    /\ sec_last' = SecLast("start_legacy", IF client_start_ok /\ task_ok THEN ESP_OK
                                           ELSE ESP_FAIL, "none", "none")
    /\ sec_count' = [sec_count EXCEPT !.starts = @ + 1]
    /\ UNCHANGED <<side_vars, chunk_vars, crypto_vars, router_vars, cmd_queue, g_security1_ctx>>

\* security1_session_stop called by the application
SessionStop ==
    /\ sec_count.starts > 0
    /\ g_security1_ctx.state # "IDLE"
    /\ LET st == security1_session_stop(St)
       IN  /\ g_security1_ctx' = st.ctx
           /\ mqtt' = st.mq
    /\ sec_last' = SecLast("stop", ESP_OK, "none", "none")
    /\ UNCHANGED <<side_vars, chunk_vars, crypto_vars, router_vars, cmd_queue, sec_count>>

\* mqtt_event_handler, MQTT_EVENT_CONNECTED; sub_ok: the subscribe succeeds
MqttConnected(sub_ok) ==
    /\ mqtt.started /\ ~mqtt.conn
    /\ LET mq0 == [mqtt EXCEPT !.conn = TRUE, !.backoff_delay_ms = MqttBackoffInitial,
                               !.reconnect_timer_active = FALSE]
       IN  mqtt' = IF mq0.security1_session_active \/ mq0.dual_topics
                   THEN IF sub_ok
                        THEN [mq0 EXCEPT !.handshake_topics_active = TRUE,
                                         !.mqtt_state = "MQTT_SECURITY1_HANDSHAKE"]
                        ELSE [mq0 EXCEPT !.mqtt_state = "MQTT_DOWN"]
                   ELSE [mq0 EXCEPT !.mqtt_state = "MQTT_UP"]
    /\ sec_last' = SecLast("connected", ESP_OK, "none", "none")
    /\ UNCHANGED <<side_vars, chunk_vars, crypto_vars, router_vars, cmd_queue, g_security1_ctx, sec_count>>

\* mqtt_event_handler, MQTT_EVENT_DISCONNECTED
MqttDisconnected ==
    /\ mqtt.started /\ mqtt.conn
    /\ mqtt' = schedule_reconnect([mqtt EXCEPT !.conn = FALSE, !.mqtt_state = "MQTT_DOWN"])
    /\ sec_last' = SecLast("disconnected", ESP_OK, "none", "none")
    /\ UNCHANGED <<side_vars, chunk_vars, crypto_vars, router_vars, cmd_queue, g_security1_ctx, sec_count>>

\* mqtt_event_handler, MQTT_EVENT_ERROR
MqttError ==
    /\ mqtt.started
    /\ mqtt' = schedule_reconnect([mqtt EXCEPT !.mqtt_state = "MQTT_DOWN"])
    /\ sec_last' = SecLast("error", ESP_OK, "none", "none")
    /\ UNCHANGED <<side_vars, chunk_vars, crypto_vars, router_vars, cmd_queue, g_security1_ctx, sec_count>>

\* reconnect_timer_callback: the one-shot timer fires
ReconnectTimer ==
    /\ mqtt.reconnect_timer_active
    /\ mqtt' = [mqtt EXCEPT !.reconnect_timer_active = FALSE]
    /\ sec_last' = SecLast("reconnect_timer", ESP_OK, "none", "none")
    /\ UNCHANGED <<side_vars, chunk_vars, crypto_vars, router_vars, cmd_queue, g_security1_ctx, sec_count>>

ClientKeys == {1}

\* the handshake messages a peer publishes, by the fields the device reads
HsMessages ==
    {[data_length |-> 2, version |-> 1, msg_type |-> 1, field |-> 0, key |-> 0,
      token |-> [key |-> ZeroKey, iv |-> 0, plain |-> 0]]}
    \cup
    [data_length : {35}, version : {1, 2}, msg_type : {1, 3}, field : {32, 31},
     key : ClientKeys, token : {[key |-> ZeroKey, iv |-> 0, plain |-> 0]}]
    \cup
    [data_length : {36}, version : {1}, msg_type : {2}, field : {32, 16}, key : {0},
     token : {[key |-> DeriveKey(g_security1_ctx.device_public_key,
                                 g_security1_ctx.client_public_key, pop),
               iv |-> g_security1_ctx.device_random,
               plain |-> g_security1_ctx.device_public_key] :
                 pop \in {HardcodedPop, "wrong_pop"}}]

HsEnvs ==
    [keygen : {"ok", "keygen_failed", "shared_failed", "derive_failed"},
     pub_ok : BOOLEAN, sub_ok : BOOLEAN]

NoHsMessage ==
    [data_length |-> 0, version |-> 0, msg_type |-> 0, field |-> 0, key |-> 0,
     token |-> [key |-> ZeroKey, iv |-> 0, plain |-> 0]]

\* the payloads a peer publishes on the command and data-request topics
DataPayloads ==
    LET json == JsonText(1, 2)
        good == PeerEncrypt(g_security1_ctx.session_key, 0, json)
    IN  {json, <<Lit(0)>>, good, FlipBit(good, Len(good), 0),
         PeerEncrypt(DeriveKey(g_security1_ctx.device_public_key,
                               g_security1_ctx.client_public_key, "wrong_pop"), 0, json),
         PeerEncrypt(g_security1_ctx.session_key, 0, <<Lit(0)>>),
         [i \in 1..(SECURITY1_AES_IV_SIZE + SECURITY1_HMAC_SIZE) |-> Lit(0)]}

\* mqtt_event_handler, MQTT_EVENT_DATA
MqttData(topic, msg, data, env) ==
    /\ mqtt.started /\ mqtt.conn
    /\ IF mqtt.handshake_topics_active /\ mqtt.dual_topics /\ topic = "handshake_rx"
       THEN /\ msg.msg_type = 1 => sec_count.estabs < MaxEstablish
            /\ LET r == security1_process_handshake_message(
                            St, msg, env, sec_count.estabs + 1)
               IN  /\ g_security1_ctx' = r.st.ctx
                   /\ mqtt' = r.st.mq
                   /\ sec_last' = [SecLast("handshake", r.ret, r.published, r.err)
                                     EXCEPT !.topic = topic, !.route = "handshake"]
                   /\ sec_count' = [sec_count EXCEPT
                          !.estabs = IF r.st.ctx.device_random # g_security1_ctx.device_random
                                     THEN @ + 1 ELSE @,
                          !.verify_failed = @ \/ r.err = "verify"]
                   /\ UNCHANGED cmd_queue
       ELSE IF /\ mqtt.security1_session_active /\ mqtt.operational_topics_active
               /\ mqtt.dual_topics /\ topic = "operational_rx"
       THEN LET size == security1_get_decrypted_size(Len(data))
                d == security1_decrypt(g_security1_ctx, data, size)
                cmd == decode_json_command(d.plaintext)
                accept == size # 0 /\ d.ret = ESP_OK /\ cmd.ok
            IN  /\ cmd_queue' = IF accept
                                THEN xQueueSend(cmd_queue,
                                       [id |-> cmd.id, op |-> cmd.op, origin |-> ORIGIN_MQTT])
                                ELSE cmd_queue
                /\ sec_last' = [SecLast("data", IF size = 0 THEN ESP_ERR_INVALID_SIZE
                                                ELSE d.ret, "none", "none")
                                  EXCEPT !.topic = topic, !.route = "operational",
                                         !.enqueued = accept /\ cmd_queue' # cmd_queue]
                /\ UNCHANGED <<g_security1_ctx, mqtt, sec_count>>
       ELSE IF topic = "legacy_cmd"
       THEN LET cmd == decode_json_command(data)
            IN  /\ cmd_queue' = IF cmd.ok
                                THEN xQueueSend(cmd_queue,
                                       [id |-> cmd.id, op |-> cmd.op, origin |-> ORIGIN_MQTT])
                                ELSE cmd_queue
                /\ sec_last' = [SecLast("data", ESP_OK, "none", "none")
                                  EXCEPT !.topic = topic, !.route = "legacy",
                                         !.enqueued = cmd.ok /\ cmd_queue' # cmd_queue]
                /\ UNCHANGED <<g_security1_ctx, mqtt, sec_count>>
       ELSE /\ sec_last' = [SecLast("data", ESP_OK, "none", "none")
                              EXCEPT !.topic = topic, !.route = "dropped"]
            /\ UNCHANGED <<g_security1_ctx, mqtt, sec_count, cmd_queue>>
    /\ UNCHANGED <<side_vars, chunk_vars, crypto_vars, router_vars>>

NextSec ==
    \/ \E o \in StartOutcomes, a \in BOOLEAN, b \in BOOLEAN, c \in BOOLEAN :
           MqttStartWithSecurity1(o, a, b, c)
    \/ \E b \in BOOLEAN, c \in BOOLEAN : MqttStartLegacy(b, c)
    \/ SessionStop
    \/ \E ok \in BOOLEAN : MqttConnected(ok)
    \/ MqttDisconnected
    \/ MqttError
    \/ ReconnectTimer
    \/ \E msg \in HsMessages, env \in HsEnvs : MqttData("handshake_rx", msg, <<>>, env)
    \/ \E topic \in Topics \ {"handshake_rx"}, data \in DataPayloads :
           MqttData(topic, NoHsMessage, data, [keygen |-> "ok", pub_ok |-> TRUE,
                                                sub_ok |-> TRUE])

SpecSec == Init /\ [][NextSec]_vars

HandshakeStates == {"HANDSHAKE_PENDING", "HANDSHAKE_COMPLETE"}

\* C3: when a SESSION_VERIFY token fails verification no response is
\* published, the session key is invalidated, the state leaves the
\* handshake, and until a new session is started no further handshake step
\* and no operational data is accepted.
C3_FailedVerifyDropsSession ==
    /\ (sec_last.op = "handshake" /\ sec_last.err = "verify") =>
          /\ sec_last.published = "none"
          /\ ~g_security1_ctx.session_key_valid
          /\ g_security1_ctx.state \notin HandshakeStates
    /\ sec_count.verify_failed =>
          /\ ~(sec_last.op = "handshake" /\ sec_last.ret = ESP_OK)
          /\ ~(sec_last.op = "data" /\ sec_last.route = "operational"
                 /\ sec_last.ret = ESP_OK)

\* the errors of the handshake after which the session cannot continue
FatalErrors == {"verify", "keygen", "derive", "publish"}

\* C4: the session key is zero and not valid after init, a valid key is a
\* derived (non-zero) key, and after every stop or fatal error the key is
\* not valid and all its bytes are zero.
C4_KeyLifecycle ==
    /\ sec_last.op = "init" =>
          ~g_security1_ctx.session_key_valid /\ g_security1_ctx.session_key = ZeroKey
    /\ g_security1_ctx.session_key_valid => g_security1_ctx.session_key # ZeroKey
    /\ (sec_last.op = "stop" \/ sec_last.err \in FatalErrors) =>
          ~g_security1_ctx.session_key_valid /\ g_security1_ctx.session_key = ZeroKey

\* the inbound handshake messages and the transport events
InboundOps == {"handshake", "data", "connected", "disconnected", "error",
               "reconnect_timer"}

\* C5: no inbound handshake message and no transport event moves the
\* session from a later state of IDLE, TRANSPORT_STARTING, TRANSPORT_READY,
\* HANDSHAKE_PENDING, HANDSHAKE_COMPLETE, SESSION_ACTIVE back to an
\* earlier one.
C5_StateMonotoneForward ==
    sec_last.op \in InboundOps =>
        Rank(g_security1_ctx.state) >= Rank(sec_last.from_state)

\* C6: after any error of a Security1 operation (transport start, key
\* generation or derivation, verification, response publish) the session
\* is in IDLE, so that the following start is accepted.
C6_ErrorForcesIdle ==
    sec_last.err \in FatalErrors \cup {"transport_start"} =>
        g_security1_ctx.state = "IDLE"

\* C8: a message on the legacy command topic is enqueued only in legacy
\* mode; with Security1 configured a message is enqueued only if it came on
\* the data-request topic while the session is active and decrypted
\* successfully; every other inbound message is dropped.
C8_InboundRouting ==
    (sec_last.op = "data" /\ sec_last.enqueued) =>
        IF mqtt.dual_topics
        THEN /\ sec_last.topic = "operational_rx"
             /\ sec_last.route = "operational"
             /\ sec_last.ret = ESP_OK
             /\ g_security1_ctx.state = "SESSION_ACTIVE"
        ELSE sec_last.topic = "legacy_cmd"

(* ====================== Encryption (SpecCrypto) ======================= *)

\* the plaintexts handed to the encryption, as literal bytes
PlainSet ==
    UNION {[1..n -> {Lit(b) : b \in Byte}] : n \in 1..MaxPlainLen}

\* security1_encrypt(plaintext, ciphertext) with a buffer of exactly the
\* required size or of 16 bytes more, then security1_decrypt of its output
Encrypt(plain, extra) ==
    /\ LET buffer == security1_get_encrypted_size(Len(plain)) + extra
           e == security1_encrypt(g_security1_ctx, plain, buffer, IvByte)
           d == security1_decrypt(g_security1_ctx, e.ciphertext, Len(plain))
       IN  crypto_last' =
               [op |-> "encrypt", src |-> "device", plain |-> plain, buffer |-> buffer,
                part |-> "none", key_valid |-> g_security1_ctx.session_key_valid,
                active |-> g_security1_ctx.state = "SESSION_ACTIVE",
                ret |-> e.ret,
                out |-> IF e.ret = ESP_OK /\ d.ret = ESP_OK THEN d.plaintext ELSE <<>>,
                base_ret |-> IF e.ret = ESP_OK THEN d.ret ELSE e.ret]
    /\ UNCHANGED <<side_vars, chunk_vars, cmd_queue, sec_vars, router_vars>>

\* the ciphertext of plain made by security1_crypto_encrypt_internal with a
\* sufficient buffer (src "device") or by the peer of the session ("peer")
Ciphertext(src, plain) ==
    IF src = "device"
    THEN security1_crypto_encrypt_internal(
             plain, Len(plain) + SECURITY1_ENCRYPTION_OVERHEAD, IvByte).ciphertext
    ELSE PeerEncrypt(g_security1_ctx.session_key, IvByte, plain)

\* the part of [IV:16][MAC:32][data:N] that holds the byte at position pos
PartOf(pos) ==
    IF pos <= SECURITY1_AES_IV_SIZE THEN "iv"
    ELSE IF pos <= SECURITY1_AES_IV_SIZE + SECURITY1_HMAC_SIZE THEN "mac"
    ELSE "body"

\* security1_decrypt, in a session that has a key, of a ciphertext with the
\* bit `bit` of byte `pos` inverted, the plaintext buffer being large enough
DecryptFlipped(src, plain, pos, bit) ==
    /\ g_security1_ctx.session_key_valid
    /\ pos <= Len(Ciphertext(src, plain))
    /\ LET c == Ciphertext(src, plain)
           size == security1_get_decrypted_size(Len(c))
           base == security1_decrypt(g_security1_ctx, c, size)
           d == security1_decrypt(g_security1_ctx, FlipBit(c, pos, bit), size)
       IN  crypto_last' =
               [op |-> "decrypt_flipped", src |-> src, plain |-> <<>>, buffer |-> 0,
                part |-> PartOf(pos), key_valid |-> g_security1_ctx.session_key_valid,
                active |-> g_security1_ctx.state = "SESSION_ACTIVE",
                ret |-> d.ret, out |-> d.plaintext, base_ret |-> base.ret]
    /\ UNCHANGED <<side_vars, chunk_vars, cmd_queue, sec_vars, router_vars>>

OkEnv == [keygen |-> "ok", pub_ok |-> TRUE, sub_ok |-> TRUE]

NextCrypto ==
    \/ MqttStartWithSecurity1("ok", TRUE, TRUE, TRUE)
    \/ MqttConnected(TRUE)
    \/ \E msg \in {m \in HsMessages : m.version = 1 /\ m.field = 32} :
           MqttData("handshake_rx", msg, <<>>, OkEnv)
    \/ SessionStop
    \/ \E plain \in PlainSet, extra \in {0, SECURITY1_AES_IV_SIZE} : Encrypt(plain, extra)
    \/ \E src \in {"device", "peer"}, plain \in PlainSet,
          pos \in 1..security1_get_encrypted_size(MaxPlainLen),
          bit \in {LowBit, HighBit} : DecryptFlipped(src, plain, pos, bit)

SpecCrypto == Init /\ [][NextCrypto]_vars

\* C9: for a non-empty plaintext and a session in SESSION_ACTIVE with a
\* valid key, security1_encrypt with a buffer of get_encrypted_size bytes
\* succeeds, and security1_decrypt of its output succeeds and gives back
\* the plaintext.
C9_EncryptDecryptRoundTrip ==
    (/\ crypto_last.op = "encrypt" /\ crypto_last.active /\ crypto_last.key_valid
     /\ crypto_last.buffer = security1_get_encrypted_size(Len(crypto_last.plain))) =>
        /\ crypto_last.ret = ESP_OK
        /\ crypto_last.base_ret = ESP_OK
        /\ crypto_last.out = crypto_last.plain

handle_origin_ble(cmd) == [id |-> cmd.id, origin |-> ORIGIN_BLE]

\* handle(cmd): the id and the origin of the response (the status and the
\* payload come from the services and play no part in the routing)
handle(cmd) == [id |-> cmd.id, origin |-> cmd.origin]

\* task: the response queue chosen for an origin
target_queue(origin) ==
    IF origin = ORIGIN_BLE THEN "BLE"
    ELSE IF origin = ORIGIN_MQTT THEN "MQTT"
    ELSE "none"

\* task of cmd_proc_task.c: one command taken from cmdQueue
Task ==
    /\ Len(cmd_queue) > 0
    /\ LET cmd == Head(cmd_queue)
           resp == handle(cmd)
           target == target_queue(resp.origin)
       IN  /\ cmd_queue' = Tail(cmd_queue)
           /\ respQueue_BLE' = IF target = "BLE" THEN xQueueSend(respQueue_BLE, resp)
                               ELSE respQueue_BLE
           /\ respQueue_MQTT' = IF target = "MQTT" THEN xQueueSend(respQueue_MQTT, resp)
                                ELSE respQueue_MQTT
           /\ router_last' = [op |-> "route", cmd_id |-> cmd.id, cmd_origin |-> cmd.origin,
                              resp_id |-> resp.id, resp_origin |-> resp.origin,
                              target |-> target,
                              queued |-> \/ respQueue_BLE' # respQueue_BLE
                                         \/ respQueue_MQTT' # respQueue_MQTT]
    /\ UNCHANGED <<side_vars, chunk_vars, sec_vars, crypto_vars, ble_state, tx_last>>

\* tx_task of transport_ble.c: one response taken from its queue
BleTx ==
    /\ Len(respQueue_BLE) > 0
    /\ LET resp == Head(respQueue_BLE)
       IN  /\ respQueue_BLE' = Tail(respQueue_BLE)
           /\ tx_last' = [transport |-> "BLE", id |-> resp.id, origin |-> resp.origin,
                          transmitted |-> resp.origin = ORIGIN_BLE /\ ble_state = "BLE_UP",
                          secure |-> FALSE,
                          form |-> IF resp.origin = ORIGIN_BLE /\ ble_state = "BLE_UP"
                                   THEN "ble_frame" ELSE "none"]
    /\ UNCHANGED <<side_vars, chunk_vars, sec_vars, crypto_vars, cmd_queue, respQueue_MQTT,
                   ble_state, router_last>>

\* mqtt_tx_task: one response taken from its queue; a response of origin
\* MQTT is published as JSON on CONFIG_MQTT_RESP_TOPIC when mqtt_state is
\* MQTT_UP and dropped otherwise.  secure: the Security1 session is active
\* and the transport has encryption enabled at that moment.
MqttTx ==
    /\ mqtt.tx_task
    /\ Len(respQueue_MQTT) > 0
    /\ LET resp == Head(respQueue_MQTT)
           publish == resp.origin = ORIGIN_MQTT /\ mqtt.mqtt_state = "MQTT_UP"
       IN  /\ respQueue_MQTT' = Tail(respQueue_MQTT)
           /\ tx_last' = [transport |-> "MQTT", id |-> resp.id, origin |-> resp.origin,
                          transmitted |-> publish,
                          secure |-> /\ g_security1_ctx.state = "SESSION_ACTIVE"
                                     /\ mqtt.security1_encryption_enabled,
                          form |-> IF publish THEN "json" ELSE "none"]
    /\ UNCHANGED <<side_vars, chunk_vars, sec_vars, crypto_vars, cmd_queue, respQueue_BLE,
                   ble_state, router_last>>

\* on_sync, then gap_evt_cb: BLE_GAP_EVENT_CONNECT with status 0 or not,
\* BLE_GAP_EVENT_DISCONNECT
BleGapEvent(event, ok) ==
    /\ CASE event = "sync" ->
                /\ ble_state = "BLE_DOWN"
                /\ ble_state' = IF ok THEN "BLE_ADVERTISING" ELSE "BLE_ERROR"
         [] event = "connect" ->
                /\ ble_state = "BLE_ADVERTISING"
                /\ ble_state' = IF ok THEN "BLE_UP" ELSE "BLE_ADVERTISING"
         [] OTHER ->
                /\ ble_state = "BLE_UP"
                /\ ble_state' = "BLE_ADVERTISING"
    /\ UNCHANGED <<side_vars, chunk_vars, sec_vars, crypto_vars, cmd_queue, respQueue_BLE,
                   respQueue_MQTT, router_last, tx_last>>

\* the identifiers and operation codes of the commands a broker delivers
CmdIds == {1, 2}

NextRouter ==
    \/ Task
    \/ BleTx
    \/ MqttTx
    \/ \E event \in {"sync", "connect", "disconnect"}, ok \in BOOLEAN :
           BleGapEvent(event, ok)
    \/ \E w \in {x \in PeerWrites : ~is_chunk(x)} : ble_state = "BLE_UP" /\ GattWrite(w)
    \/ MqttStartLegacy(TRUE, TRUE)
    \/ MqttStartWithSecurity1("ok", TRUE, TRUE, TRUE)
    \/ MqttConnected(TRUE)
    \/ MqttDisconnected
    \/ \E id \in CmdIds : MqttData("legacy_cmd", NoHsMessage, JsonText(id, 2), OkEnv)

SpecRouter == Init /\ [][NextRouter]_vars

\* C7: the response of every routed command carries the command's id and
\* origin and goes only to the response queue of that origin; a response
\* queue holds only responses of its own origin; a TX task transmits only
\* responses whose origin is its own transport.
C7_ResponsesNeverCross ==
    /\ router_last.op = "route" =>
          /\ router_last.resp_id = router_last.cmd_id
          /\ router_last.resp_origin = router_last.cmd_origin
          /\ router_last.target = IF router_last.cmd_origin = ORIGIN_BLE THEN "BLE"
                                  ELSE IF router_last.cmd_origin = ORIGIN_MQTT THEN "MQTT"
                                  ELSE "none"
    /\ \A i \in 1..Len(respQueue_BLE) : respQueue_BLE[i].origin = ORIGIN_BLE
    /\ \A i \in 1..Len(respQueue_MQTT) : respQueue_MQTT[i].origin = ORIGIN_MQTT
    /\ tx_last.transmitted =>
          tx_last.origin = IF tx_last.transport = "BLE" THEN ORIGIN_BLE ELSE ORIGIN_MQTT

\* an MQTT response is transmitted while the command routed last came from
\* BLE and its response waits in the BLE queue
C7_Witness ==
    /\ tx_last.transport = "MQTT" /\ tx_last.transmitted
    /\ router_last.op = "route" /\ router_last.cmd_origin = ORIGIN_BLE
    /\ router_last.queued
    /\ Len(respQueue_BLE) > 0

(* ====================== Secure responses (SpecSecureTx) =============== *)

\* a command encrypted by the peer of the session
SecureCommand == PeerEncrypt(g_security1_ctx.session_key, IvByte, JsonText(1, 2))

NextSecureTx ==
    \/ MqttStartWithSecurity1("ok", TRUE, TRUE, TRUE)
    \/ \E ok \in BOOLEAN : MqttConnected(ok)
    \/ MqttDisconnected
    \/ \E msg \in {m \in HsMessages : m.version = 1 /\ m.field = 32} :
           MqttData("handshake_rx", msg, <<>>, OkEnv)
    \/ \E topic \in {"operational_rx", "legacy_cmd"}, data \in {SecureCommand, JsonText(2, 2)} :
           MqttData(topic, NoHsMessage, data, OkEnv)
    \/ Task
    \/ MqttTx

SpecSecureTx == Init /\ [][NextSecureTx]_vars

\* C11: in secure mode with the session active, a response of origin MQTT
\* that the MQTT TX task takes from its queue is published as an encrypted
\* blob: it is neither dropped nor published as plaintext JSON.
C11_SecureResponseEncrypted ==
    (tx_last.transport = "MQTT" /\ tx_last.origin = ORIGIN_MQTT /\ tx_last.secure) =>
        tx_last.transmitted /\ tx_last.form = "encrypted"

(* ====================== Proof of possession (SpecPop) ================= *)

\* the PoP strings a caller of transport_mqtt_start_with_security1 configures
PopSet == {AppPop, "other_pop_67890"}

NextPop ==
    \/ \E pop \in PopSet : MqttStartWithPop(pop, "ok", TRUE, TRUE, TRUE)
    \/ \E ok \in BOOLEAN : MqttConnected(ok)
    \/ MqttDisconnected
    \/ \E msg \in HsMessages, env \in HsEnvs : MqttData("handshake_rx", msg, <<>>, env)
    \/ SessionStop

SpecPop == Init /\ [][NextPop]_vars

\* C12: the session key of SESSION_ESTABLISH, which is also the key that
\* SESSION_VERIFY is checked with, is derived from the PoP given to
\* security1_session_start, so that sessions started with different PoPs
\* get different keys for the same key exchange.
C12_KeyDerivedFromStartPop ==
    g_security1_ctx.session_key_valid =>
        g_security1_ctx.session_key =
            DeriveKey(g_security1_ctx.session_key.gen, g_security1_ctx.session_key.peer,
                      g_security1_ctx.pop_data)

(***************************************************************************)
(* The session lock: g_security1_ctx.state_mutex.  Another task of the     *)
(* firmware may hold the mutex for longer than the timeout of the caller   *)
(* (state_mutex = TRUE); the public operations are called meanwhile.       *)
(***************************************************************************)

\* another task takes state_mutex (xSemaphoreTake) or gives it back
OtherTaskMutex(take) ==
    /\ state_mutex = ~take
    /\ state_mutex' = take
    /\ UNCHANGED <<lock_last, reasm_vars, send_vars, time_vars, frameid_vars, em_vars, more_vars, chunk_vars, cmd_queue, sec_vars, crypto_vars, router_vars>>

\* the result of one Security1 operation, with the locking it did:
\* busy: the mutex was held elsewhere for the whole call; accessed: the call
\* read or wrote the session state, keys or statistics; held: it held the
\* mutex at each such access; changed: the session context was modified
LockRecord(op, accessed, held, ret) ==
    [op |-> op, busy |-> state_mutex, accessed |-> accessed, held |-> held,
     changed |-> g_security1_ctx' # g_security1_ctx, ret |-> ret]

\* security1_process_handshake_message called by mqtt_event_handler for a
\* message on the handshake topic: no xSemaphoreTake on its path
LockedHandshake(msg) ==
    /\ mqtt.started /\ mqtt.conn
    /\ mqtt.handshake_topics_active /\ mqtt.dual_topics
    /\ msg.msg_type = 1 => sec_count.estabs < MaxEstablish
    /\ LET r == security1_process_handshake_message(St, msg, OkEnv, sec_count.estabs + 1)
       IN  /\ g_security1_ctx' = r.st.ctx
           /\ mqtt' = r.st.mq
           /\ sec_last' = [SecLast("handshake", r.ret, r.published, r.err)
                             EXCEPT !.topic = "handshake_rx", !.route = "handshake"]
           /\ sec_count' = [sec_count EXCEPT
                  !.estabs = IF r.st.ctx.device_random # g_security1_ctx.device_random
                             THEN @ + 1 ELSE @,
                  !.verify_failed = @ \/ r.err = "verify"]
           /\ lock_last' = LockRecord("process_handshake_message",
                                      msg.data_length # 0, FALSE, r.ret)
    /\ UNCHANGED <<state_mutex, reasm_vars, send_vars, time_vars, frameid_vars, em_vars, more_vars, chunk_vars, cmd_queue, crypto_vars, router_vars>>

\* security1_session_stop: the cleanup runs only if the mutex is obtained,
\* and ESP_OK is returned either way
LockedStop ==
    /\ sec_count.starts > 0
    /\ LET st == IF state_mutex THEN St ELSE security1_session_stop(St)
       IN  /\ g_security1_ctx' = st.ctx
           /\ mqtt' = st.mq
    /\ sec_last' = SecLast("stop", ESP_OK, "none", "none")
    /\ lock_last' = LockRecord("stop", ~state_mutex, ~state_mutex, ESP_OK)
    /\ UNCHANGED <<state_mutex, reasm_vars, send_vars, time_vars, frameid_vars, em_vars, more_vars, chunk_vars, cmd_queue, sec_count, crypto_vars, router_vars>>

\* security1_decrypt of a peer message: session_key_valid is read before the
\* mutex is taken; the decryption itself runs with the mutex held, or the
\* call returns ESP_ERR_TIMEOUT
LockedDecrypt(plain) ==
    /\ UNCHANGED <<state_mutex, reasm_vars, send_vars, time_vars, frameid_vars, em_vars, more_vars, chunk_vars, cmd_queue, sec_vars, crypto_vars, router_vars>>
    /\ LET c == PeerEncrypt(g_security1_ctx.session_key, IvByte, plain)
           size == security1_get_decrypted_size(Len(c))
           d == security1_decrypt(g_security1_ctx, c, size)
           at_lock == g_security1_ctx.session_key_valid
           ret == IF at_lock /\ state_mutex THEN ESP_ERR_TIMEOUT ELSE d.ret
       IN  lock_last' = LockRecord("decrypt", TRUE, FALSE, ret)

NextLock ==
    \/ ~state_mutex /\ MqttStartWithSecurity1("ok", TRUE, TRUE, TRUE)
    \/ MqttConnected(TRUE)
    \/ \E take \in BOOLEAN : OtherTaskMutex(take)
    \/ \E msg \in {m \in HsMessages : m.version = 1 /\ m.field = 32} : LockedHandshake(msg)
    \/ LockedStop
    \/ \E plain \in PlainSet : LockedDecrypt(plain)

SpecLock == Init /\ [][NextLock]_vars

\* C13: every public Security1 operation that reads or writes the session
\* state, keys or statistics does so while holding the session lock, and
\* when the lock cannot be obtained it returns ESP_ERR_TIMEOUT without
\* performing the operation.
C13_OperationsHoldLock ==
    lock_last.op # "none" =>
        /\ lock_last.accessed => lock_last.held
        /\ lock_last.busy => lock_last.ret = ESP_ERR_TIMEOUT /\ ~lock_last.changed

(***************************************************************************)
(* chunk_manager_process called directly (SpecReasm): the reassembler fed  *)
(* with the chunks of several frames, well formed or not.                  *)
(***************************************************************************)

\* the frame ids of the callers: one more than there are contexts
ReasmFrameIds == 1..(MaxConcurrentFrames + 1)

\* The chunks handed to chunk_manager_process: full chunks with any index
\* below MaxReasmTotal and any total up to it; a short chunk; a chunk whose
\* size field disagrees with its length; a chunk longer than a full chunk.
ReasmChunks ==
    [flags : {CHUNK_FLAG_CHUNKED + CHUNK_FLAG_MORE}, chunk_idx : 0..(MaxReasmTotal - 1),
     total_chunks : 1..MaxReasmTotal, frame_id : ReasmFrameIds,
     chunk_size : {EffectiveSize}, payload : {PeerPayload(EffectiveSize)}]
    \cup
    [flags : {CHUNK_FLAG_CHUNKED + CHUNK_FLAG_FINAL}, chunk_idx : {1},
     total_chunks : {2}, frame_id : {1},
     chunk_size : {1}, payload : {PeerPayload(1)}]
    \cup
    [flags : {CHUNK_FLAG_CHUNKED + CHUNK_FLAG_FINAL}, chunk_idx : {0},
     total_chunks : {1}, frame_id : {1, 2},
     chunk_size : {EffectiveSize, EffectiveSize + 1},
     payload : {PeerPayload(EffectiveSize + 1)}]

\* the active contexts, as a set of context records
ActiveContexts(ctxs) == {ctxs[i] : i \in {j \in 1..MaxConcurrentFrames : ctxs[j].active}}

\* bit chunk_idx of the received bitmap of the active context of frame_id
IndexBitSet(ctxs, frame_id, chunk_idx) ==
    \E x \in ActiveContexts(ctxs) :
        /\ x.frame_id = frame_id
        /\ chunk_idx < 8
        /\ (x.chunks_received \div (2 ^ chunk_idx)) % 2 = 1

\* the header checks made before the context lookup
HeaderValid(c) == c.chunk_size = Len(c.payload) /\ c.chunk_idx < c.total_chunks

\* one call of chunk_manager_process; buffer_ok: malloc of the reassembly
\* buffer succeeds
ProcessChunk(c, buffer_ok) ==
    /\ \E r \in IF buffer_ok
                 THEN {chunk_manager_process(cm_contexts, cm_stored, c, m) : m \in BOOLEAN}
                 ELSE {chunk_manager_process_nomem(cm_contexts, cm_stored, c)} :
           /\ cm_contexts' = r.ctxs
           /\ cm_stored' = r.stored
           /\ cm_last' = CallRecord(r, c, "api")
           /\ reasm_last' =
                  [called |-> TRUE, ret |-> r.ret,
                   bit_set |-> HeaderValid(c)
                               /\ IndexBitSet(cm_contexts, c.frame_id, c.chunk_idx),
                   full_before |-> /\ HeaderValid(c)
                                   /\ \A i \in 1..MaxConcurrentFrames :
                                          /\ cm_contexts[i].active
                                          /\ cm_contexts[i].frame_id # c.frame_id,
                   is_duplicate |-> r.result.is_duplicate,
                   is_complete |-> r.result.is_complete,
                   stored_now |-> r.stored_now,
                   new_ctx |-> \E x \in ActiveContexts(r.ctxs) :
                                  /\ x.frame_id = c.frame_id
                                  /\ \A y \in ActiveContexts(cm_contexts) :
                                         y.frame_id # c.frame_id,
                   kept |-> ActiveContexts(r.ctxs) = ActiveContexts(cm_contexts)]
    /\ UNCHANGED <<lock_vars, send_vars, time_vars, frameid_vars, em_vars, more_vars, next_frame_id, tx_frames, fed, rx_done, nfeeds,
                   cmd_queue, sec_vars, crypto_vars, router_vars>>

NextReasm == \E c \in ReasmChunks, buffer_ok \in BOOLEAN : ProcessChunk(c, buffer_ok)

SpecReasm == Init /\ [][NextReasm]_vars

\* C14: a chunk that passes the header checks and whose index bit is already
\* set in the context of its frame returns ESP_OK with is_duplicate set and
\* changes no context (bitmap, accumulated size, buffer); the call reports
\* no completion.
C14_DuplicateMutatesNothing ==
    reasm_last.bit_set =>
        /\ reasm_last.ret = ESP_OK
        /\ reasm_last.is_duplicate
        /\ reasm_last.kept
        /\ ~reasm_last.is_complete

\* a chunk is fed again while its frame is still being reassembled
C14_Witness ==
    /\ reasm_last.bit_set /\ reasm_last.is_duplicate
    /\ \E x \in ActiveContexts(cm_contexts) : x.chunks_received # 0

\* C15: a chunk that chunk_manager_process rejects or does not store creates
\* no context and leaves every active context as it was (bitmap, sizes,
\* buffer), the one of its own frame_id included.
C15_BadChunkLeavesContexts ==
    (reasm_last.called /\ (reasm_last.ret # ESP_OK \/ ~reasm_last.stored_now)) =>
        reasm_last.kept /\ ~reasm_last.new_ctx

(***************************************************************************)
(* chunk_manager_send by input size (SpecSend): frames of every size up to *)
(* MaxSendSize, beyond 256 chunks of EffectiveSize bytes.                  *)
(***************************************************************************)

\* the input of the given size: data_size bytes 0
SizedData(data_size) == [k \in 1..data_size |-> 0]

RECURSIVE SumPayload(_, _)
\* the payload bytes carried by the first n of the chunks
SumPayload(chunks, n) ==
    IF n = 0 THEN 0 ELSE chunks[n].chunk_size + SumPayload(chunks, n - 1)

\* one call of chunk_manager_send(data, data_size, result)
SendSized(data_size) ==
    /\ next_frame_id <= MaxSizedSends
    /\ LET r == chunk_manager_send(SizedData(data_size), next_frame_id)
       IN  /\ next_frame_id' = IF r.ret = ESP_OK THEN NextFrameId(next_frame_id)
                                                 ELSE next_frame_id
           /\ send_last' = [called |-> TRUE, data_size |-> data_size, ret |-> r.ret,
                            chunk_count |-> Len(r.chunks),
                            payload_total |-> SumPayload(r.chunks, Len(r.chunks))]
    /\ UNCHANGED <<lock_vars, reasm_vars, time_vars, frameid_vars, em_vars, more_vars, cm_contexts, cm_stored, cm_last,
                   tx_frames, fed,
                   rx_done, nfeeds, cmd_queue, sec_vars, crypto_vars, router_vars>>

NextSend == \E data_size \in 0..MaxSendSize : SendSized(data_size)

SpecSend == Init /\ [][NextSend]_vars

\* ceil(data_size / effective), in unbounded arithmetic
ChunksRequired(data_size) == (data_size + EffectiveSize - 1) \div EffectiveSize

\* C16: for every input size that needs more than 8 chunks chunk_manager_send
\* fails with ESP_ERR_INVALID_SIZE and hands out no chunk, and a send that
\* succeeds never hands out more than 8 chunks.
C16_OversizeRejected ==
    send_last.called =>
        /\ ChunksRequired(send_last.data_size) > MaxChunksPerFrame =>
               send_last.ret = ESP_ERR_INVALID_SIZE /\ send_last.chunk_count = 0
        /\ send_last.ret = ESP_OK => send_last.chunk_count <= MaxChunksPerFrame

\* the configuration check of chunk_manager_init on max_concurrent_frames
chunk_manager_init(max_concurrent_frames) ==
    IF max_concurrent_frames = 0 \/ max_concurrent_frames > 8
    THEN ESP_ERR_INVALID_ARG ELSE ESP_OK

\* C17: at most max_concurrent_frames contexts, and at most 8, are active at
\* any moment; a chunk of a new frame_id arriving while every slot is active
\* fails with ESP_ERR_NO_MEM and leaves every active context as it was.
C17_FullTableRejectsNewFrame ==
    /\ Cardinality(ActiveContexts(cm_contexts)) <= MaxConcurrentFrames
    /\ Cardinality({i \in DOMAIN cm_contexts : cm_contexts[i].active}) <= 8
    /\ chunk_manager_init(Len(cm_contexts)) = ESP_OK
    /\ reasm_last.full_before =>
           /\ reasm_last.ret = ESP_ERR_NO_MEM
           /\ reasm_last.kept
           /\ ~reasm_last.new_ctx

\* a chunk of a third frame was refused while both contexts stay active
C17_Witness ==
    /\ reasm_last.full_before
    /\ reasm_last.ret = ESP_ERR_NO_MEM
    /\ Cardinality(ActiveContexts(cm_contexts)) = MaxConcurrentFrames

(***************************************************************************)
(* The expiration sweep (SpecSweep): contexts are created while the timer  *)
(* advances, and chunk_manager_cleanup_expired is called at any moment.    *)
(***************************************************************************)

\* an expiry test that also releases a context aged exactly the timeout
ExpiredAtTimeout(age) == age.hi > 0 \/ age.lo >= ReassemblyTimeout

\* age > config.reassembly_timeout_ms
Expired(age) == age.hi > 0 \/ age.lo > ReassemblyTimeout

\* chunk_manager_cleanup_expired: the contexts after the sweep
chunk_manager_cleanup_expired(ctxs) ==
    LET current_time == get_timestamp_ms
    IN  [i \in 1..MaxConcurrentFrames |->
            IF ctxs[i].active /\ Expired(U32Sub(current_time, ctxs[i].timestamp_ms))
            THEN FreeContext ELSE ctxs[i]]

\* the timer advances by one millisecond, by the timeout, or by 2^32 ms
\* (49.7 days)
TickSteps == {Ms(0, 1), Ms(0, ReassemblyTimeout), Ms(65536, 0)}

\* the uptimes of the model: up to MaxUptimeSteps ms after boot and after
\* 2^32 ms
Tick(d) ==
    /\ LET t == MsAdd(uptime_ms, d)
       IN  t.hi <= 65536 /\ t.lo <= MaxUptimeSteps
    /\ uptime_ms' = MsAdd(uptime_ms, d)
    /\ UNCHANGED <<stats_timeouts, sweep_last, lock_vars, reasm_vars, send_vars, frameid_vars, em_vars, more_vars,
                   chunk_vars,
                   cmd_queue, sec_vars, crypto_vars, router_vars>>

\* one run of chunk_manager_cleanup_expired
CleanupExpired ==
    LET after == chunk_manager_cleanup_expired(cm_contexts)
        slots == {i \in 1..MaxConcurrentFrames : cm_contexts[i].active}
        released == {i \in slots : ~after[i].active}
    IN  /\ stats_timeouts < MaxTimeouts
        /\ cm_contexts' = after
        /\ cm_stored' = [i \in 1..MaxConcurrentFrames |->
                            IF i \in released THEN {} ELSE cm_stored[i]]
        /\ stats_timeouts' = stats_timeouts + Cardinality(released)
        /\ sweep_last' =
               [called |-> TRUE, released |-> released,
                aged |-> {i \in slots :
                             LET age == MsSub(uptime_ms, cm_contexts[i].created_at)
                             IN  age.hi > 0 \/ age.lo > ReassemblyTimeout},
                aged_u32 |-> {i \in slots :
                                 LET age == MsSub(uptime_ms, cm_contexts[i].created_at)
                                 IN  age.hi % 65536 > 0 \/ age.lo > ReassemblyTimeout},
                timeouts |-> stats_timeouts' - stats_timeouts,
                others_kept |-> \A i \in 1..MaxConcurrentFrames :
                                   i \notin released => after[i] = cm_contexts[i]]
        /\ UNCHANGED <<uptime_ms, lock_vars, reasm_vars, send_vars, frameid_vars, em_vars, more_vars, next_frame_id,
                       cm_last,
                       tx_frames, fed, rx_done, nfeeds, cmd_queue, sec_vars, crypto_vars,
                       router_vars>>

\* the first chunks of two-chunk frames, and their second chunks
SweepChunks ==
    {c \in ReasmChunks : /\ c.total_chunks = 2 /\ c.chunk_size = EffectiveSize
                         /\ c.frame_id <= MaxConcurrentFrames}

NextSweep ==
    \/ \E c \in SweepChunks : ProcessChunk(c, TRUE)
    \/ \E d \in TickSteps : Tick(d)
    \/ CleanupExpired

SpecSweep == Init /\ [][NextSweep]_vars

\* C18 as stated: each sweep releases exactly the active contexts created
\* more than reassembly_timeout_ms ago, adds one to the timeout counter per
\* released context, and leaves the other contexts untouched.
C18_SweepReleasesAged ==
    sweep_last.called =>
        /\ sweep_last.released = sweep_last.aged
        /\ sweep_last.timeouts = Cardinality(sweep_last.released)
        /\ sweep_last.others_kept

\* C18, amended: each sweep releases exactly the active contexts whose age,
\* taken modulo 2^32 ms as the 32-bit timestamps give it, exceeds
\* reassembly_timeout_ms, adds one to the timeout counter per released
\* context, and leaves the other contexts untouched.
C18_SweepReleasesAgedU32 ==
    sweep_last.called =>
        /\ sweep_last.released = sweep_last.aged_u32
        /\ sweep_last.timeouts = Cardinality(sweep_last.released)
        /\ sweep_last.others_kept

\* a sweep released one context and kept a younger one, with the counter at
\* the number of releases
C18_Witness ==
    /\ sweep_last.called
    /\ sweep_last.released # {}
    /\ \E i \in 1..MaxConcurrentFrames : cm_contexts[i].active
    /\ stats_timeouts > 0

(***************************************************************************)
(* Frame id allocation (SpecFrameId): threads inside chunk_manager_send,   *)
(* each step of the section guarded by chunk_mutex taken separately.       *)
(***************************************************************************)

\* a semaphore that any thread obtains at once
MutexAlwaysAvailable(holder) == TRUE

\* xSemaphoreTake(chunk_mutex, portMAX_DELAY) returns once the mutex is free
MutexAvailable(holder) == holder = 0

frameid_rest ==
    <<lock_vars, reasm_vars, send_vars, time_vars, em_vars, more_vars, cm_contexts, cm_stored, cm_last, tx_frames,
      fed, rx_done, nfeeds, cmd_queue, sec_vars, crypto_vars, router_vars>>

\* thread t enters chunk_manager_send with a frame of at most 8 chunks and
\* takes chunk_mutex.  A thread still building its frame is overtaken by at
\* most one allocation: it returns before the next send starts.
SendTake(t) ==
    /\ send_pc[t] = "idle"
    /\ \A u \in SendThreads : send_pc[u] = "build" => send_id[u] = alloc_last.id
    /\ MutexAvailable(chunk_mutex)
    /\ chunk_mutex' = t
    /\ send_pc' = [send_pc EXCEPT ![t] = "read"]
    /\ UNCHANGED <<send_id, alloc_last, next_frame_id, frameid_rest>>

\* uint16_t frame_id = next_frame_id++ : the read
SendRead(t) ==
    /\ send_pc[t] = "read"
    /\ send_id' = [send_id EXCEPT ![t] = next_frame_id]
    /\ send_pc' = [send_pc EXCEPT ![t] = "write"]
    /\ UNCHANGED <<chunk_mutex, alloc_last, next_frame_id, frameid_rest>>

\* the increment, the skip of 0, and xSemaphoreGive(chunk_mutex)
SendWriteGive(t) ==
    /\ send_pc[t] = "write"
    /\ next_frame_id' = NextFrameId(send_id[t])
    /\ alloc_last' = [prev |-> alloc_last.id, id |-> send_id[t]]
    /\ chunk_mutex' = IF chunk_mutex = t THEN 0 ELSE chunk_mutex
    /\ send_pc' = [send_pc EXCEPT ![t] = "build"]
    /\ UNCHANGED <<send_id, frameid_rest>>

\* the chunks are built under frame_id, or a malloc fails; the call returns
SendReturn(t) ==
    /\ send_pc[t] = "build"
    /\ send_pc' = [send_pc EXCEPT ![t] = "idle"]
    /\ send_id' = [send_id EXCEPT ![t] = 0]
    /\ UNCHANGED <<chunk_mutex, alloc_last, next_frame_id, frameid_rest>>

NextFrameIdSpec ==
    \E t \in SendThreads :
        \/ SendTake(t)
        \/ SendRead(t)
        \/ SendWriteGive(t)
        \/ SendReturn(t)

SpecFrameId == Init /\ [][NextFrameIdSpec]_vars

\* C19: the frame ids allocated by chunk_manager_send are never 0; each
\* allocation yields the id after the previous one, 1 after 65535; two
\* threads that are inside chunk_manager_send at the same time hold
\* different frame ids.
C19_FrameIdsSequential ==
    /\ next_frame_id # 0
    /\ \A t \in SendThreads : send_pc[t] \in {"write", "build"} => send_id[t] # 0
    /\ alloc_last.prev # 0 =>
           alloc_last.id = IF alloc_last.prev = 65535 THEN 1 ELSE alloc_last.prev + 1
    /\ \A t, u \in SendThreads :
           (t # u /\ send_pc[t] = "build" /\ send_pc[u] = "build") => send_id[t] # send_id[u]

\* two threads are building their frames at the same time, the second with
\* the id allocated right after the id of the first
C19_Witness ==
    /\ alloc_last.prev # 0
    /\ \A t \in SendThreads : send_pc[t] = "build"
    /\ \E t \in SendThreads : send_id[t] = alloc_last.prev

(***************************************************************************)
(* The error manager (SpecErr): reports on one registered component with   *)
(* automatic recovery, while the timer advances.                           *)
(***************************************************************************)

\* (current_time - reg->last_recovery_timestamp_ms) < recovery_cooldown_ms
ERROR_RECOVERY_NONE == 0
ERROR_RECOVERY_RETRY == 1
ERROR_RECOVERY_RESET_STATE == 2
ERROR_RECOVERY_RESTART_COMPONENT == 3
ERROR_RECOVERY_RESTART_SERVICE == 4
ERROR_RECOVERY_SYSTEM_RESTART == 5

\* one category of each case of get_default_recovery_strategy
Categories == {"CONNECTION", "MEMORY", "HARDWARE", "PROTOCOL", "CONFIGURATION", "PROCESSING"}

get_default_recovery_strategy(category, severity) ==
    IF severity >= ERROR_SEVERITY_CRITICAL
    THEN CASE category = "CONNECTION" -> ERROR_RECOVERY_RESTART_COMPONENT
           [] category = "MEMORY" -> ERROR_RECOVERY_RESET_STATE
           [] category = "HARDWARE" -> ERROR_RECOVERY_SYSTEM_RESTART
           [] OTHER -> ERROR_RECOVERY_RESTART_COMPONENT
    ELSE CASE category = "CONNECTION" -> ERROR_RECOVERY_RETRY
           [] category = "MEMORY" -> ERROR_RECOVERY_RETRY
           [] category = "PROTOCOL" -> ERROR_RECOVERY_RESET_STATE
           [] category = "CONFIGURATION" -> ERROR_RECOVERY_NONE
           [] OTHER -> ERROR_RECOVERY_RETRY

\* (current_time - last_recovery_timestamp_ms) < recovery_cooldown_ms
CooldownActive(reg) ==
    LET since == U32Sub(get_timestamp_ms, reg.last_recovery_timestamp_ms)
    IN  since.hi = 0 /\ since.lo < RecoveryCooldown

\* recovery whatever the severity, the count and the time
should_attempt_always(reg, severity) == TRUE

\* should_attempt_recovery(component, severity)
should_attempt_recovery(reg, severity) ==
    IF ~reg.registered \/ ~reg.auto_recovery_enabled THEN FALSE
    ELSE IF severity >= ERROR_SEVERITY_CRITICAL THEN TRUE
    ELSE IF reg.consecutive_errors >= MaxConsecutiveErrors THEN FALSE
    ELSE IF CooldownActive(reg) THEN FALSE
    ELSE TRUE

\* the values the component's recovery callback may be made to return: it
\* returns ESP_OK for the strategies from cb_from on, and never for NoCallbackOk
NoCallbackOk == ERROR_RECOVERY_SYSTEM_RESTART
CallbackFrom == ERROR_RECOVERY_RESET_STATE .. NoCallbackOk

\* the switch of execute_recovery: TRUE for result == ESP_OK
RecoveryResult(reg, strategy, cb_from) ==
    CASE strategy = ERROR_RECOVERY_RETRY -> TRUE
      [] strategy \in {ERROR_RECOVERY_RESET_STATE, ERROR_RECOVERY_RESTART_COMPONENT,
                       ERROR_RECOVERY_RESTART_SERVICE} ->
             reg.recovery_callback /\ strategy >= cb_from
      [] OTHER -> FALSE

\* escalation to any strategy
EscalationAlways(escalated_strategy) == TRUE

\* if (escalated_strategy < ERROR_RECOVERY_SYSTEM_RESTART)
EscalationAllowed(escalated_strategy) ==
    escalated_strategy < ERROR_RECOVERY_SYSTEM_RESTART

RECURSIVE execute_recovery(_, _, _)
\* execute_recovery(component, strategy, error_info): the registration
\* afterwards, the result and the strategies executed, in order
execute_recovery(reg, strategy, cb_from) ==
    LET stamped == [reg EXCEPT !.last_recovery_timestamp_ms = get_timestamp_ms]
    IN  IF RecoveryResult(reg, strategy, cb_from)
        THEN [reg |-> [stamped EXCEPT !.consecutive_errors = 0], ok |-> TRUE,
              tried |-> <<strategy>>]
        ELSE IF /\ reg.escalate_on_failure
                /\ strategy # ERROR_RECOVERY_SYSTEM_RESTART
                /\ EscalationAllowed(strategy + 1)
        THEN LET r == execute_recovery(stamped, strategy + 1, cb_from)
             IN  [r EXCEPT !.tried = <<strategy>> \o @]
        ELSE [reg |-> stamped, ok |-> FALSE, tried |-> <<strategy>>]

\* error_manager_report(component, category, severity, ...) for a valid
\* component, category and severity
error_manager_report(reg, category, severity, cb_from) ==
    LET counted == [reg EXCEPT !.consecutive_errors = @ + 1]
        recovery == get_default_recovery_strategy(category, severity)
        attempt == should_attempt_recovery(counted, severity)
        r == execute_recovery(counted, recovery, cb_from)
    IN  [attempted |-> attempt,
         reg |-> IF attempt THEN r.reg ELSE counted,
         tried |-> IF attempt THEN r.tried ELSE <<>>,
         ok |-> attempt /\ r.ok]

Report(category, severity, cb_from) ==
    /\ em_component.consecutive_errors < MaxErrorCount
    /\ LET r == error_manager_report(em_component, category, severity, cb_from)
       IN  /\ em_component' = r.reg
           /\ em_last' = [called |-> TRUE, severity |-> severity,
                          attempted |-> r.attempted,
                          count_before |-> em_component.consecutive_errors,
                          cooldown_elapsed |-> ~CooldownActive(em_component),
                          enabled |-> em_component.registered
                                         /\ em_component.auto_recovery_enabled,
                          tried |-> r.tried, ok |-> r.ok,
                          escalate |-> em_component.escalate_on_failure]
    /\ UNCHANGED <<lock_vars, reasm_vars, send_vars, time_vars, frameid_vars, chunk_vars,
                   cmd_queue, sec_vars, crypto_vars, router_vars, more_vars>>

\* error_manager_set_auto_recovery(component, enabled) on the registered
\* component
SetAutoRecovery(enabled) ==
    /\ em_component' = [em_component EXCEPT !.auto_recovery_enabled = enabled]
    /\ UNCHANGED <<em_last, lock_vars, reasm_vars, send_vars, time_vars, frameid_vars,
                   chunk_vars, cmd_queue, sec_vars, crypto_vars, router_vars, more_vars>>

\* error_manager_register_component(component, recovery_config,
\* recovery_callback, user_data): the component registers again with a
\* recovery configuration of MaxConsecutiveErrors and RecoveryCooldown, with or
\* without a recovery callback, with or without escalate_on_failure
RegisterComponent(callback, escalate) ==
    /\ em_component' = [registered |-> TRUE, auto_recovery_enabled |-> TRUE,
                        escalate_on_failure |-> escalate,
                        recovery_callback |-> callback,
                        consecutive_errors |-> 0,
                        last_recovery_timestamp_ms |-> Ms(0, 0)]
    /\ UNCHANGED <<em_last, lock_vars, reasm_vars, send_vars, time_vars, frameid_vars,
                   chunk_vars, cmd_queue, sec_vars, crypto_vars, router_vars, more_vars>>

NextErr ==
    \/ \E callback \in BOOLEAN, escalate \in BOOLEAN : RegisterComponent(callback, escalate)
    \/ \E category \in Categories,
          severity \in {ERROR_SEVERITY_WARNING, ERROR_SEVERITY_ERROR, ERROR_SEVERITY_CRITICAL},
          cb_from \in CallbackFrom : Report(category, severity, cb_from)
    \/ \E enabled \in BOOLEAN : SetAutoRecovery(enabled)
    \/ \E d \in TickSteps : Tick(d)

SpecErr == Init /\ [][NextErr]_vars

\* C20: with max_consecutive_errors = k, a report below CRITICAL that follows
\* k consecutive reports skips recovery while the cooldown has not elapsed,
\* and a report below CRITICAL made once the cooldown has elapsed is
\* eligible for recovery again.
C20_SkipEndsWithCooldown ==
    (em_last.called /\ em_last.severity < ERROR_SEVERITY_CRITICAL) =>
        /\ (em_last.count_before >= MaxConsecutiveErrors /\ ~em_last.cooldown_elapsed) =>
               ~em_last.attempted
        /\ (em_last.count_before >= MaxConsecutiveErrors /\ em_last.cooldown_elapsed) =>
               em_last.attempted

C22_EscalationBounded ==
    (em_last.called /\ em_last.attempted) =>
        LET tried == em_last.tried
        IN  /\ Len(tried) >= 1
            /\ Len(tried) <= ERROR_RECOVERY_SYSTEM_RESTART
            /\ \A i \in 2..Len(tried) :
                   /\ tried[i] = tried[i - 1] + 1
                   /\ tried[i] # ERROR_RECOVERY_SYSTEM_RESTART
            /\ ~em_last.escalate => Len(tried) = 1
            /\ (em_last.escalate /\ ~em_last.ok) =>
                   tried[Len(tried)] >= ERROR_RECOVERY_RESTART_SERVICE

\* a failed RESET_STATE escalated through RESTART_COMPONENT to RESTART_SERVICE
C22_Witness ==
    /\ em_last.called /\ em_last.attempted /\ ~em_last.ok
    /\ em_last.tried = <<ERROR_RECOVERY_RESET_STATE, ERROR_RECOVERY_RESTART_COMPONENT,
                         ERROR_RECOVERY_RESTART_SERVICE>>

(***************************************************************************)
(* The health level (SpecHealth): reports on the registered component, the *)
(* statistics they leave and error_manager_get_system_health over the      *)
(* registry, in which the other components never registered.               *)
(***************************************************************************)

SetMax(S) == CHOOSE x \in S : \A y \in S : y <= x

\* components[i].consecutive_errors >= components[i].recovery_config.max_consecutive_errors
ThresholdReached(consecutive_errors, max_consecutive_errors) ==
    consecutive_errors >= max_consecutive_errors

\* (current_time - t) < the health window, in uint32_t
InWindow(t) ==
    LET since == U32Sub(get_timestamp_ms, t)
    IN  since.hi = 0 /\ since.lo < HealthWindow

\* one iteration of the loop of error_manager_get_system_health: the level
\* component i contributes; errors_by_severity is the set of severities
\* with a count above 0
ComponentHealth(stats, consecutive_errors, max_consecutive_errors) ==
    LET recent == /\ stats.last_error_timestamp_ms # Ms(0, 0)
                  /\ InWindow(stats.last_error_timestamp_ms)
                  /\ stats.errors_by_severity # {}
        sev == IF recent THEN SetMax(stats.errors_by_severity) ELSE ERROR_SEVERITY_INFO
        high == IF ThresholdReached(consecutive_errors, max_consecutive_errors)
                THEN ERROR_SEVERITY_WARNING ELSE ERROR_SEVERITY_INFO
    IN  SetMax({sev, high})

\* error_manager_get_system_health: the registered component and a
\* component left as error_manager_init leaves it (max_consecutive_errors 0)
error_manager_get_system_health ==
    SetMax({ComponentHealth(em_stats, em_component.consecutive_errors, MaxConsecutiveErrors),
            ComponentHealth(ZeroStats, 0, 0)})

\* update_component_statistics
update_component_statistics(stats, severity) ==
    [last_error_timestamp_ms |-> get_timestamp_ms,
     errors_by_severity |-> stats.errors_by_severity \cup {severity}]

\* error_manager_report with the statistics it leaves
ReportStats(category, severity, cb_from) ==
    /\ em_component.consecutive_errors < MaxErrorCount
    /\ LET r == error_manager_report(em_component, category, severity, cb_from)
       IN  /\ em_component' = r.reg
           /\ em_last' = [called |-> TRUE, severity |-> severity,
                          attempted |-> r.attempted,
                          count_before |-> em_component.consecutive_errors,
                          cooldown_elapsed |-> ~CooldownActive(em_component),
                          enabled |-> em_component.registered
                                         /\ em_component.auto_recovery_enabled,
                          tried |-> r.tried, ok |-> r.ok,
                          escalate |-> em_component.escalate_on_failure]
    /\ em_stats' = update_component_statistics(em_stats, severity)
    /\ em_reported' = [em_reported EXCEPT ![severity] = get_timestamp_ms]
    /\ UNCHANGED <<emlock_vars, backoff_vars, bp_vars, late_vars, lock_vars, reasm_vars, send_vars, time_vars, frameid_vars, chunk_vars,
                   cmd_queue, sec_vars, crypto_vars, router_vars>>

NextHealth ==
    \/ \E category \in {"CONNECTION", "CONFIGURATION"}, severity \in Severities :
          ReportStats(category, severity, NoCallbackOk)
    \/ \E d \in TickSteps : Tick(d)

SpecHealth == Init /\ [][NextHealth]_vars

\* the highest severity among the reports of the last HealthWindow ms
RecentSeverities == {s \in Severities : em_reported[s] # Never /\ InWindow(em_reported[s])}

\* C24: the system health is the highest severity among the errors reported
\* inside the window, or WARNING if the component has reached its
\* consecutive-error threshold, and INFO with no error inside the window and
\* no component over its threshold.
C24_HealthIsRecentMax ==
    error_manager_get_system_health =
        SetMax(RecentSeverities
               \cup {ERROR_SEVERITY_INFO}
               \cup (IF em_component.consecutive_errors >= MaxConsecutiveErrors
                     THEN {ERROR_SEVERITY_WARNING} ELSE {}))

(***************************************************************************)
(* The error manager's lock (SpecErrLock): threads inside                  *)
(* error_manager_report on the same component, step by step.               *)
(***************************************************************************)

errlock_rest ==
    <<em_last, health_vars, backoff_vars, bp_vars, late_vars, lock_vars, reasm_vars, send_vars, time_vars, frameid_vars,
      chunk_vars, cmd_queue, sec_vars, crypto_vars, router_vars>>

\* the access of thread t to a field of components[] or component_stats[]
Access(t, field) == [field |-> field, held |-> error_manager_mutex = t]

\* xSemaphoreTake(error_manager_mutex, portMAX_DELAY) at the head of
\* error_manager_report
ReportTake(t, category, severity) ==
    /\ report_call[t].pc = "idle"
    /\ error_manager_mutex = 0
    /\ em_component.consecutive_errors < MaxErrorCount
    /\ em_executed < MaxRecoveries
    /\ error_manager_mutex' = t
    /\ report_call' = [report_call EXCEPT ![t] =
           [pc |-> "locked", severity |-> severity,
            recovery |-> get_default_recovery_strategy(category, severity), read |-> 0]]
    /\ UNCHANGED <<em_component, recovery_attempts, em_executed, em_access, errlock_rest>>

\* the statistics, components[component].consecutive_errors++ and
\* xSemaphoreGive
ReportCount(t) ==
    /\ report_call[t].pc = "locked"
    /\ em_component' = [em_component EXCEPT !.consecutive_errors = @ + 1]
    /\ em_access' = Access(t, "consecutive_errors")
    /\ error_manager_mutex' = 0
    /\ report_call' = [report_call EXCEPT ![t].pc = "decide"]
    /\ UNCHANGED <<recovery_attempts, em_executed, errlock_rest>>

\* if (should_attempt_recovery(component, severity)), after the give
ReportDecide(t) ==
    /\ report_call[t].pc = "decide"
    /\ em_access' = Access(t, "consecutive_errors")
    /\ report_call' = [report_call EXCEPT ![t] =
           IF should_attempt_recovery(em_component, report_call[t].severity)
           THEN [@ EXCEPT !.pc = "recover"] ELSE NoReportCall]
    /\ UNCHANGED <<error_manager_mutex, em_component, recovery_attempts, em_executed,
                   errlock_rest>>

\* execute_recovery: the read of component_stats[component].recovery_attempts++
RecoverRead(t) ==
    /\ report_call[t].pc = "recover"
    /\ em_access' = Access(t, "recovery_attempts")
    /\ report_call' = [report_call EXCEPT ![t].pc = "store", ![t].read = recovery_attempts]
    /\ UNCHANGED <<error_manager_mutex, em_component, recovery_attempts, em_executed,
                   errlock_rest>>

\* execute_recovery: the write of recovery_attempts, the time stamp, the
\* strategy and its escalations, the reset of consecutive_errors
RecoverStore(t, cb_from) ==
    /\ report_call[t].pc = "store"
    /\ LET r == execute_recovery(em_component, report_call[t].recovery, cb_from)
       IN  /\ em_component' = r.reg
           /\ recovery_attempts' = report_call[t].read + Len(r.tried)
           /\ em_executed' = em_executed + Len(r.tried)
    /\ em_access' = Access(t, "recovery_attempts")
    /\ report_call' = [report_call EXCEPT ![t] = NoReportCall]
    /\ UNCHANGED <<error_manager_mutex, errlock_rest>>

NextErrLock ==
    \/ \E t \in ReportThreads, category \in {"CONNECTION", "PROTOCOL"},
          severity \in {ERROR_SEVERITY_WARNING, ERROR_SEVERITY_CRITICAL} :
          ReportTake(t, category, severity)
    \/ \E t \in ReportThreads : ReportCount(t)
    \/ \E t \in ReportThreads : ReportDecide(t)
    \/ \E t \in ReportThreads : RecoverRead(t)
    \/ \E t \in ReportThreads, cb_from \in CallbackFrom : RecoverStore(t, cb_from)
    \/ \E d \in TickSteps : Tick(d)

SpecErrLock == Init /\ [][NextErrLock]_vars

\* C23: every read and write of the registry and of the per-component
\* counters happens with the error manager's lock held by the thread, and
\* no counter update is lost: with no report in progress recovery_attempts
\* counts every strategy executed.
C23_RegistryUnderLock ==
    /\ em_access.held
    /\ (\A t \in ReportThreads : report_call[t].pc = "idle") =>
           recovery_attempts = em_executed

(***************************************************************************)
(* The MQTT reconnect backoff (SpecBackoff): the broker events CONNECTED,  *)
(* DISCONNECTED and ERROR and the one-shot reconnect timer.                *)
(***************************************************************************)

\* MQTT_EVENT_CONNECTED without the reset of the backoff and of the timer
connected_event_keeping(mq, sub_ok) ==
    [mq EXCEPT !.conn = TRUE, !.mqtt_state = "MQTT_UP"]

\* mqtt_event_handler, case MQTT_EVENT_CONNECTED
connected_event(mq, sub_ok) ==
    LET mq0 == [mq EXCEPT !.conn = TRUE, !.backoff_delay_ms = MqttBackoffInitial,
                          !.reconnect_timer_active = FALSE]
    IN  IF mq0.security1_session_active \/ mq0.dual_topics
        THEN IF sub_ok
             THEN [mq0 EXCEPT !.handshake_topics_active = TRUE,
                              !.mqtt_state = "MQTT_SECURITY1_HANDSHAKE"]
             ELSE [mq0 EXCEPT !.mqtt_state = "MQTT_DOWN"]
        ELSE [mq0 EXCEPT !.mqtt_state = "MQTT_UP"]

\* mqtt_event_handler, cases MQTT_EVENT_DISCONNECTED and MQTT_EVENT_ERROR
failure_event(mq, event) ==
    schedule_reconnect(IF event = "DISCONNECTED"
                       THEN [mq EXCEPT !.conn = FALSE, !.mqtt_state = "MQTT_DOWN"]
                       ELSE [mq EXCEPT !.mqtt_state = "MQTT_DOWN"])

BackoffRecord(event, after, failures) ==
    [event |-> event, delay_before |-> mqtt.backoff_delay_ms,
     timer_before |-> mqtt.reconnect_timer_active,
     delay_after |-> after.backoff_delay_ms,
     timer_after |-> after.reconnect_timer_active, failures |-> failures]

backoff_rest ==
    <<sec_last, sec_count, g_security1_ctx, chunk_vars, crypto_vars, router_vars, cmd_queue,
      lock_vars, reasm_vars, send_vars, time_vars, frameid_vars, em_vars, health_vars,
      emlock_vars, bp_vars, late_vars>>

\* the broker is reached
EventConnected(sub_ok) ==
    /\ mqtt.started /\ ~mqtt.conn
    /\ LET after == connected_event(mqtt, sub_ok)
       IN  /\ mqtt' = after
           /\ backoff_last' = BackoffRecord("CONNECTED", after, 0)
    /\ UNCHANGED backoff_rest

\* the connection is lost or an attempt to connect fails
EventFailure(event) ==
    /\ mqtt.started
    /\ backoff_last.failures < MaxFailures
    /\ LET after == failure_event(mqtt, event)
       IN  /\ mqtt' = after
           /\ backoff_last' = BackoffRecord(event, after, backoff_last.failures + 1)
    /\ UNCHANGED backoff_rest

NextBackoff ==
    \/ \E b \in BOOLEAN, c \in BOOLEAN : MqttStartLegacy(b, c)
    \/ \E o \in {"ok"}, a \in BOOLEAN : MqttStartWithSecurity1(o, a, TRUE, TRUE)
    \/ \E ok \in BOOLEAN : EventConnected(ok)
    \/ \E event \in {"DISCONNECTED", "ERROR"} : EventFailure(event)
    \/ ReconnectTimer

SpecBackoff == Init /\ [][NextBackoff]_vars

FailureEvents == {"DISCONNECTED", "ERROR"}

Doubled(delay) == IF delay * 2 > MqttBackoffMax THEN MqttBackoffMax ELSE delay * 2

C26_ConnectResets ==
    backoff_last.event = "CONNECTED" =>
        /\ backoff_last.delay_after = MqttBackoffInitial
        /\ ~backoff_last.timer_after

\* a connect with the delay raised and the timer pending
C26_Witness ==
    /\ backoff_last.event = "CONNECTED"
    /\ backoff_last.delay_before > MqttBackoffInitial
    /\ backoff_last.timer_before
    /\ mqtt.backoff_delay_ms = MqttBackoffInitial
    /\ ~mqtt.reconnect_timer_active

C28_OperationalTopics ==
    mqtt.mqtt_state \in {"MQTT_OPERATIONAL", "MQTT_ENCRYPTED_COMM"} =>
        /\ mqtt.operational_topics_active
        /\ ~mqtt.handshake_topics_active

(***************************************************************************)
(* The BLE send path with back-pressure (SpecBp): the TX task inside       *)
(* notify_resp and send_chunk_with_backpressure.  The time since           *)
(* last_retry_ms is kept up to ElapsedCap, beyond which no test of the     *)
(* code tells two values apart.                                            *)
(***************************************************************************)

RETRY_BACKOFF_INITIAL_MS == 50
RETRY_BACKOFF_MAX_MS == 2000
RETRY_MAX_ATTEMPTS == 5
CIRCUIT_BREAKER_THRESHOLD == 10
CIRCUIT_BREAKER_TIMEOUT_MS == 5000

ElapsedCap == CIRCUIT_BREAKER_TIMEOUT_MS + 1

\* esp_random() % 0: the trap of the integer division
DivideByZeroTrap == Uninit

\* backpressure_reset
backpressure_reset ==
    [retry_count |-> 0, backoff_delay_ms |-> RETRY_BACKOFF_INITIAL_MS,
     consecutive_failures |-> 0, circuit_breaker_open |-> FALSE]

\* backpressure_should_retry: the answer and the state it leaves
backpressure_should_retry(bp, elapsed) ==
    LET recovered == bp.circuit_breaker_open /\ elapsed > CIRCUIT_BREAKER_TIMEOUT_MS
        bp1 == IF recovered
               THEN [bp EXCEPT !.circuit_breaker_open = FALSE, !.consecutive_failures = 0,
                               !.retry_count = 0]
               ELSE bp
    IN  IF bp.circuit_breaker_open /\ ~recovered THEN [ok |-> FALSE, bp |-> bp]
        ELSE IF bp1.retry_count >= RETRY_MAX_ATTEMPTS THEN [ok |-> FALSE, bp |-> bp1]
        ELSE IF bp1.retry_count > 0 /\ elapsed < bp1.backoff_delay_ms
        THEN [ok |-> FALSE, bp |-> bp1]
        ELSE [ok |-> TRUE, bp |-> bp1]

\* the doubled delay of backpressure_record_failure, before the jitter
DoubledBackoff(bp) ==
    IF bp.backoff_delay_ms * 2 > RETRY_BACKOFF_MAX_MS THEN RETRY_BACKOFF_MAX_MS
    ELSE bp.backoff_delay_ms * 2

\* esp_random() % (bp_state.backoff_delay_ms / 10): the least and the
\* greatest value; with a divisor of 0 the trap, or any value where the
\* build's division does not trap
JitterChoices(bp) ==
    LET divisor == DoubledBackoff(bp) \div 10
    IN  IF divisor = 0 THEN {DivideByZeroTrap, 0, RETRY_BACKOFF_MAX_MS}
        ELSE {0, divisor - 1}

\* backpressure_record_failure, for a jitter that is not the trap
backpressure_record_failure(bp, jitter) ==
    LET failures == bp.consecutive_failures + 1
    IN  [retry_count |-> bp.retry_count + 1,
         backoff_delay_ms |-> DoubledBackoff(bp) + jitter,
         consecutive_failures |-> failures,
         circuit_breaker_open |-> bp.circuit_breaker_open
                                     \/ failures >= CIRCUIT_BREAKER_THRESHOLD]

bp_rest ==
    <<chunk_vars, cmd_queue, sec_vars, crypto_vars, router_vars, lock_vars, reasm_vars,
      send_vars, time_vars, frameid_vars, em_vars, health_vars, emlock_vars, backoff_vars, late_vars>>

\* tx_task takes a response of origin BLE from the queue, after any wait,
\* and notify_resp starts on its first chunk
NotifyResp(chunks, waited) ==
    /\ bp_call.pc = "idle"
    /\ bp_call' = [pc |-> "chunk", attempts |-> 0, remaining |-> chunks]
    /\ bp_elapsed' = IF waited THEN ElapsedCap ELSE bp_elapsed
    /\ UNCHANGED <<bp_state, bp_rest>>

\* send_chunk_with_backpressure, one turn of the loop in which
\* backpressure_should_retry is false: vTaskDelay(backoff_delay_ms), continue
BpWait ==
    /\ bp_call.pc = "chunk"
    /\ bp_call.attempts < RETRY_MAX_ATTEMPTS
    /\ LET r == backpressure_should_retry(bp_state, bp_elapsed)
       IN  /\ ~r.ok
           /\ bp_state' = r.bp
           /\ bp_elapsed' = Min(bp_elapsed + r.bp.backoff_delay_ms, ElapsedCap)
    /\ UNCHANGED <<bp_call, bp_rest>>

\* one turn of the loop in which a send is attempted; sent: the mbuf is
\* there and ble_gattc_notify_custom returns 0
BpAttempt(sent, jitter) ==
    /\ bp_call.pc = "chunk"
    /\ bp_call.attempts < RETRY_MAX_ATTEMPTS
    /\ LET r == backpressure_should_retry(bp_state, bp_elapsed)
       IN  /\ r.ok
           /\ IF sent
              THEN /\ bp_state' = backpressure_reset
                   /\ bp_elapsed' = bp_elapsed
                   /\ bp_call' = IF bp_call.remaining > 1
                                  THEN [pc |-> "chunk", attempts |-> 0,
                                        remaining |-> bp_call.remaining - 1]
                                  ELSE [pc |-> "idle", attempts |-> 0, remaining |-> 0]
              ELSE /\ jitter \in JitterChoices(r.bp)
                   /\ IF jitter = DivideByZeroTrap
                      THEN /\ bp_state' = r.bp
                           /\ bp_elapsed' = 0
                           /\ bp_call' = [bp_call EXCEPT !.pc = "trap"]
                      ELSE /\ bp_state' = backpressure_record_failure(r.bp, jitter)
                           /\ bp_elapsed' = 0
                           /\ bp_call' = [bp_call EXCEPT !.attempts = @ + 1]
    /\ UNCHANGED bp_rest

\* the loop ends with attempts = RETRY_MAX_ATTEMPTS: ESP_FAIL, and
\* notify_resp records one more failure
BpGiveUp(jitter) ==
    /\ bp_call.pc = "chunk"
    /\ bp_call.attempts >= RETRY_MAX_ATTEMPTS
    /\ jitter \in JitterChoices(bp_state)
    /\ IF jitter = DivideByZeroTrap
       THEN /\ bp_state' = bp_state
            /\ bp_call' = [bp_call EXCEPT !.pc = "trap"]
       ELSE /\ bp_state' = backpressure_record_failure(bp_state, jitter)
            /\ bp_call' = [pc |-> "idle", attempts |-> 0, remaining |-> 0]
    /\ bp_elapsed' = 0
    /\ UNCHANGED bp_rest

JitterValues == {DivideByZeroTrap, 0, RETRY_BACKOFF_MAX_MS} \cup 0..(RETRY_BACKOFF_MAX_MS \div 10)

NextBp ==
    \/ \E chunks \in 1..MaxChunksPerResponse, waited \in BOOLEAN : NotifyResp(chunks, waited)
    \/ BpWait
    \/ \E sent \in BOOLEAN, jitter \in JitterValues : BpAttempt(sent, jitter)
    \/ \E jitter \in JitterValues : BpGiveUp(jitter)

\* the TX task is a FreeRTOS task that is always scheduled again, and
\* vTaskDelay returns
SpecBp == Init /\ [][NextBp]_vars /\ WF_vars(NextBp)

\* C29: send_chunk_with_backpressure always returns, whatever the retry and
\* failure counters earlier chunks left behind: the TX task does not stay
\* inside the send of one chunk for ever.
C29_SendChunkReturns == (bp_call.pc = "chunk") ~> (bp_call.pc = "idle")

BleAdv == [ble_state |-> ble_state, timer |-> advertising_timer,
           backoff_ms |-> advertising_backoff_ms]

\* schedule_advertising_backoff: nothing unless ble_state is
\* BLE_ADVERTISING and the timer is idle; else the one-shot timer starts
\* and the back-off doubles up to ADVERTISING_BACKOFF_MAX_MS
schedule_advertising_backoff(b) ==
    IF b.ble_state # "BLE_ADVERTISING" THEN b
    ELSE IF b.timer THEN b
    ELSE [b EXCEPT !.timer = TRUE,
                   !.backoff_ms = IF b.backoff_ms * 2 > ADVERTISING_BACKOFF_MAX_MS
                                  THEN ADVERTISING_BACKOFF_MAX_MS
                                  ELSE b.backoff_ms * 2]

\* advertise_start; rc_ok: ble_gap_adv_set_fields and ble_gap_adv_start
\* both return 0
advertise_start(b, rc_ok) ==
    IF b.ble_state # "BLE_ADVERTISING" /\ b.ble_state # "BLE_STARTING" THEN b
    ELSE IF ~rc_ok THEN schedule_advertising_backoff([b EXCEPT !.ble_state = "BLE_ERROR"])
    ELSE [b EXCEPT !.ble_state = "BLE_ADVERTISING"]

\* reset_advertising_backoff
reset_advertising_backoff(b) ==
    [b EXCEPT !.timer = FALSE, !.backoff_ms = ADVERTISING_BACKOFF_INITIAL_MS]

\* chunk_manager_init(cfg) with cfg.max_chunk_size = size; alloc_ok: calloc
\* and xSemaphoreCreateMutex succeed.  The configuration is copied before
\* it is validated.
chunk_manager_init_config(cm, size, alloc_ok) ==
    IF cm.initialized THEN [cm |-> cm, err |-> ESP_OK]
    ELSE IF size < HeaderSize + 1
    THEN [cm |-> [cm EXCEPT !.max_chunk_size = size], err |-> ESP_ERR_INVALID_ARG]
    ELSE IF ~alloc_ok
    THEN [cm |-> [cm EXCEPT !.max_chunk_size = size], err |-> ESP_ERR_NO_MEM]
    ELSE [cm |-> [initialized |-> TRUE, max_chunk_size |-> size], err |-> ESP_OK]

\* chunk_manager_deinit
chunk_manager_deinit(cm) == [cm EXCEPT !.initialized = FALSE]

gap_rest ==
    <<chunk_vars, cmd_queue, sec_vars, crypto_vars, respQueue_BLE, respQueue_MQTT,
      router_last, tx_last, lock_vars, reasm_vars, send_vars, time_vars, frameid_vars,
      em_vars, health_vars, emlock_vars, backoff_vars, bp_vars, heap_vars, oper_vars>>

\* the three BLE fields take the values of b
SetBleAdv(b) ==
    /\ ble_state' = b.ble_state
    /\ advertising_timer' = b.timer
    /\ advertising_backoff_ms' = b.backoff_ms

\* transport_ble_start; created: esp_timer_create and xTaskCreate succeed
TransportBleStart(alloc_ok, created) ==
    /\ ble_state = "BLE_DOWN"
    /\ LET r == chunk_manager_init_config(cm_config, negotiated_mtu - AttOverhead, alloc_ok)
       IN  /\ cm_config' = r.cm
           /\ chunk_manager_initialized' = (r.err = ESP_OK)
    /\ ble_state' = IF created THEN "BLE_STARTING" ELSE "BLE_ERROR"
    /\ advertising_timer' = FALSE
    /\ gap_last' = [op |-> "start", failed |-> ~created]
    /\ UNCHANGED <<current_conn, negotiated_mtu, advertising_backoff_ms, gap_rest>>

\* on_sync: the host is synchronised, at first and again after a reset
OnSync(rc_ok) ==
    /\ ble_state \in {"BLE_STARTING", "BLE_ERROR"}
    /\ SetBleAdv(advertise_start([BleAdv EXCEPT !.ble_state = "BLE_STARTING"], rc_ok))
    /\ gap_last' = [op |-> "advertise_start", failed |-> ~rc_ok]
    /\ UNCHANGED <<current_conn, negotiated_mtu, chunk_manager_initialized, cm_config, gap_rest>>

\* on_reset
OnReset ==
    /\ ble_state # "BLE_DOWN"
    /\ ble_state' = "BLE_ERROR"
    /\ current_conn' = BLE_HS_CONN_HANDLE_NONE
    /\ negotiated_mtu' = DefaultMtu
    /\ gap_last' = [op |-> "reset", failed |-> FALSE]
    /\ UNCHANGED <<advertising_timer, advertising_backoff_ms, chunk_manager_initialized,
                   cm_config, gap_rest>>

\* gap_evt_cb, BLE_GAP_EVENT_CONNECT with status 0 or not
GapConnect(status_ok) ==
    /\ ble_state = "BLE_ADVERTISING"
    /\ current_conn = BLE_HS_CONN_HANDLE_NONE
    /\ IF status_ok
       THEN /\ current_conn' = ConnHandle
            /\ SetBleAdv(reset_advertising_backoff([BleAdv EXCEPT !.ble_state = "BLE_UP"]))
       ELSE /\ current_conn' = current_conn
            /\ SetBleAdv(schedule_advertising_backoff(
                             [BleAdv EXCEPT !.ble_state = "BLE_ADVERTISING"]))
    /\ gap_last' = [op |-> "connect", failed |-> ~status_ok]
    /\ UNCHANGED <<negotiated_mtu, chunk_manager_initialized, cm_config, gap_rest>>

\* gap_evt_cb, BLE_GAP_EVENT_DISCONNECT
GapDisconnect(rc_ok) ==
    /\ current_conn # BLE_HS_CONN_HANDLE_NONE
    /\ current_conn' = BLE_HS_CONN_HANDLE_NONE
    /\ negotiated_mtu' = DefaultMtu
    /\ SetBleAdv(advertise_start([BleAdv EXCEPT !.ble_state = "BLE_ADVERTISING"], rc_ok))
    /\ gap_last' = [op |-> "disconnect", failed |-> ~rc_ok]
    /\ UNCHANGED <<chunk_manager_initialized, cm_config, gap_rest>>

\* gap_evt_cb, BLE_GAP_EVENT_MTU
GapMtu(value, alloc_ok) ==
    /\ current_conn # BLE_HS_CONN_HANDLE_NONE
    /\ negotiated_mtu' = value
    /\ IF chunk_manager_initialized
       THEN LET r == chunk_manager_init_config(chunk_manager_deinit(cm_config),
                                               value - AttOverhead, alloc_ok)
            IN  /\ cm_config' = r.cm
                /\ chunk_manager_initialized' = (r.err = ESP_OK)
       ELSE UNCHANGED <<cm_config, chunk_manager_initialized>>
    /\ gap_last' = [op |-> "mtu", failed |-> ~alloc_ok]
    /\ UNCHANGED <<ble_state, current_conn, advertising_timer, advertising_backoff_ms, gap_rest>>

\* gap_evt_cb, BLE_GAP_EVENT_ADV_COMPLETE: the advertising duration ended
GapAdvComplete ==
    /\ ble_state = "BLE_ADVERTISING"
    /\ ~advertising_timer
    /\ SetBleAdv(schedule_advertising_backoff(BleAdv))
    /\ gap_last' = [op |-> "adv_complete", failed |-> FALSE]
    /\ UNCHANGED <<current_conn, negotiated_mtu, chunk_manager_initialized, cm_config, gap_rest>>

\* advertising_timer_callback: the one-shot timer expires
AdvertisingTimerCallback(rc_ok) ==
    /\ advertising_timer
    /\ SetBleAdv(IF ble_state = "BLE_ADVERTISING"
                 THEN advertise_start([BleAdv EXCEPT !.timer = FALSE], rc_ok)
                 ELSE [BleAdv EXCEPT !.timer = FALSE])
    /\ gap_last' = IF ble_state = "BLE_ADVERTISING"
                   THEN [op |-> "advertise_start", failed |-> ~rc_ok]
                   ELSE [op |-> "timer_skipped", failed |-> FALSE]
    /\ UNCHANGED <<current_conn, negotiated_mtu, chunk_manager_initialized, cm_config, gap_rest>>

\* transport_ble_stop
TransportBleStop ==
    /\ ble_state # "BLE_DOWN"
    /\ ble_state' = "BLE_DOWN"
    /\ advertising_timer' = FALSE
    /\ current_conn' = BLE_HS_CONN_HANDLE_NONE
    /\ negotiated_mtu' = DefaultMtu
    /\ advertising_backoff_ms' = ADVERTISING_BACKOFF_INITIAL_MS
    /\ gap_last' = [op |-> "stop", failed |-> FALSE]
    /\ UNCHANGED <<chunk_manager_initialized, cm_config, gap_rest>>

NextGap ==
    \/ \E alloc_ok \in BOOLEAN, created \in BOOLEAN : TransportBleStart(alloc_ok, created)
    \/ \E rc_ok \in BOOLEAN : OnSync(rc_ok)
    \/ OnReset
    \/ \E status_ok \in BOOLEAN : GapConnect(status_ok)
    \/ \E rc_ok \in BOOLEAN : GapDisconnect(rc_ok)
    \/ \E value \in {DefaultMtu, PeerMtu}, alloc_ok \in BOOLEAN : GapMtu(value, alloc_ok)
    \/ GapAdvComplete
    \/ \E rc_ok \in BOOLEAN : AdvertisingTimerCallback(rc_ok)
    \/ TransportBleStop

SpecGap == Init /\ [][NextGap]_vars

\* C31: whenever the BLE transport is in BLE_ERROR after a failed start of
\* advertising or a host reset, a backed-off restart of advertising is
\* pending (the advertising timer is active).
C31_ErrorHasRestartPending ==
    (ble_state = "BLE_ERROR" /\ gap_last.op \in {"advertise_start", "reset"})
        => advertising_timer

\* C32: while the chunk manager is initialised, its max_chunk_size is the
\* current MTU minus the ATT overhead, after an MTU event and after every
\* reset of the MTU to the default.
C32_ChunkSizeFollowsMtu ==
    (cm_config.initialized /\ gap_last.op \in {"mtu", "disconnect", "reset", "stop"})
        => cm_config.max_chunk_size = negotiated_mtu - AttOverhead

(* ================= payload ownership across the queues ================= *)

\* malloc: a new payload, not freed yet
Malloc(h) == Append(h, 0)

\* free(p); free(NULL) does nothing
Free(h, p) == IF p = NullPayload THEN h ELSE [h EXCEPT ![p] = @ + 1]

\* the operations a peer names in a command
HeapOps == {"wifiScan", "other"}

\* decode_ble_frame / decode_json_command of a well-formed command: the
\* payload is malloc'ed when the command carries one
DecodedCommand(id, op, origin, with_payload) ==
    [id |-> id, op |-> op, origin |-> origin,
     payload |-> IF with_payload THEN Len(heap) + 1 ELSE NullPayload]

\* gatt_chr_access_cb, a direct frame that decodes: xQueueSend(cmd_queue,
\* &f, 0) with its result ignored
HeapGattWrite(id, op, with_payload) ==
    /\ ble_state = "BLE_UP"
    /\ with_payload => Len(heap) < MaxAllocs
    /\ heap' = IF with_payload THEN Malloc(heap) ELSE heap
    /\ cmd_queue' = xQueueSend(cmd_queue, DecodedCommand(id, op, ORIGIN_BLE, with_payload))
    /\ UNCHANGED <<heap_last, gap_vars, oper_vars, chunk_vars, sec_vars, crypto_vars, router_vars,
                   lock_vars, reasm_vars, send_vars, time_vars, frameid_vars, em_vars,
                   health_vars, emlock_vars, backoff_vars, bp_vars>>

\* mqtt_event_handler, MQTT_EVENT_DATA on the command topic with a command
\* that decodes: the payload is freed when the queue is full
HeapMqttData(id, op, with_payload) ==
    /\ mqtt.started /\ mqtt.conn
    /\ with_payload => Len(heap) < MaxAllocs
    /\ LET cmd == DecodedCommand(id, op, ORIGIN_MQTT, with_payload)
           h1 == IF with_payload THEN Malloc(heap) ELSE heap
           q1 == xQueueSend(cmd_queue, cmd)
       IN  /\ cmd_queue' = q1
           /\ heap' = IF q1 = cmd_queue THEN Free(h1, cmd.payload) ELSE h1
    /\ UNCHANGED <<heap_last, gap_vars, oper_vars, chunk_vars, sec_vars, crypto_vars, router_vars,
                   lock_vars, reasm_vars, send_vars, time_vars, frameid_vars, em_vars,
                   health_vars, emlock_vars, backoff_vars, bp_vars>>

\* handle(cmd) with the payload of the response; scan_ok: svc_wifi_scan
\* succeeds and hands out its JSON text.  The status of the other services
\* is their return value, here 0.
handle_frame(cmd, scan_ok, h) ==
    [id |-> cmd.id, origin |-> cmd.origin, is_final |-> TRUE,
     status |-> IF cmd.op = "syncSchedule" THEN 0
                ELSE IF cmd.op = "wifiScan" THEN (IF scan_ok THEN 0 ELSE 0 - 1)
                ELSE 0 - 1,
     payload |-> IF cmd.op = "wifiScan" /\ scan_ok THEN Len(h) + 1 ELSE NullPayload]

\* task of cmd_proc_task.c: one command taken from cmdQueue, its response
\* sent to the queue of its origin with xQueueSend(.., 0), the payload of
\* the command freed
HeapTask(scan_ok) ==
    /\ Len(cmd_queue) > 0
    /\ LET cmd == Head(cmd_queue)
           resp == handle_frame(cmd, scan_ok, heap)
           h1 == IF resp.payload # NullPayload THEN Malloc(heap) ELSE heap
           target == target_queue(resp.origin)
           ble1 == IF target = "BLE" THEN xQueueSend(respQueue_BLE, resp) ELSE respQueue_BLE
           mqtt1 == IF target = "MQTT" THEN xQueueSend(respQueue_MQTT, resp)
                    ELSE respQueue_MQTT
       IN  /\ (cmd.op = "wifiScan" /\ scan_ok) => Len(heap) < MaxAllocs
           /\ cmd_queue' = Tail(cmd_queue)
           /\ respQueue_BLE' = ble1
           /\ respQueue_MQTT' = mqtt1
           /\ heap' = IF target = "none" THEN Free(Free(h1, resp.payload), cmd.payload)
                      ELSE Free(h1, cmd.payload)
           /\ heap_last' = [op |-> "route", cmd_op |-> cmd.op, cmd_id |-> cmd.id,
                            cmd_origin |-> cmd.origin, cmd_payload |-> cmd.payload,
                            cmd_freed |-> cmd.payload # NullPayload
                                            => heap'[cmd.payload] = 1,
                            queued |-> (Len(ble1) - Len(respQueue_BLE))
                                         + (Len(mqtt1) - Len(respQueue_MQTT)),
                            resp |-> IF Len(ble1) > Len(respQueue_BLE)
                                     THEN <<ble1[Len(ble1)]>>
                                     ELSE IF Len(mqtt1) > Len(respQueue_MQTT)
                                     THEN <<mqtt1[Len(mqtt1)]>> ELSE <<>>]
    /\ UNCHANGED <<gap_vars, oper_vars, chunk_vars, sec_vars, crypto_vars, ble_state, router_last, tx_last,
                   lock_vars, reasm_vars, send_vars, time_vars, frameid_vars, em_vars,
                   health_vars, emlock_vars, backoff_vars, bp_vars>>

\* tx_task of transport_ble.c: one response taken from the queue; skipped
\* when its origin is not BLE, dropped and freed when ble_state is not
\* BLE_UP, else notified and freed
HeapBleTx ==
    /\ Len(respQueue_BLE) > 0
    /\ LET resp == Head(respQueue_BLE)
       IN  /\ respQueue_BLE' = Tail(respQueue_BLE)
           /\ heap' = IF resp.origin # ORIGIN_BLE THEN heap
                      ELSE IF resp.is_final THEN Free(heap, resp.payload) ELSE heap
    /\ UNCHANGED <<heap_last, gap_vars, oper_vars, chunk_vars, sec_vars, crypto_vars, cmd_queue,
                   respQueue_MQTT, ble_state, router_last, tx_last,
                   lock_vars, reasm_vars, send_vars, time_vars, frameid_vars, em_vars,
                   health_vars, emlock_vars, backoff_vars, bp_vars>>

\* mqtt_tx_task, while the task exists: one response taken from the queue;
\* skipped when its origin is not MQTT, dropped and freed when mqtt_state is
\* not MQTT_UP, else published and freed
HeapMqttTx ==
    /\ mqtt.tx_task
    /\ Len(respQueue_MQTT) > 0
    /\ LET resp == Head(respQueue_MQTT)
       IN  /\ respQueue_MQTT' = Tail(respQueue_MQTT)
           /\ heap' = IF resp.origin # ORIGIN_MQTT THEN heap
                      ELSE IF resp.is_final THEN Free(heap, resp.payload) ELSE heap
    /\ UNCHANGED <<heap_last, gap_vars, oper_vars, chunk_vars, sec_vars, crypto_vars, cmd_queue,
                   respQueue_BLE, ble_state, router_last, tx_last,
                   lock_vars, reasm_vars, send_vars, time_vars, frameid_vars, em_vars,
                   health_vars, emlock_vars, backoff_vars, bp_vars>>

\* transport_mqtt_stop: the reconnect timer is stopped, the TX task is
\* deleted, the client is stopped and mqtt_state becomes MQTT_DOWN
TransportMqttStop ==
    /\ mqtt.started
    /\ mqtt' = [mqtt EXCEPT !.reconnect_timer_active = FALSE, !.tx_task = FALSE,
                            !.started = FALSE, !.conn = FALSE, !.mqtt_state = "MQTT_DOWN"]
    /\ sec_last' = SecLast("transport_stop", ESP_OK, "none", "none")
    /\ UNCHANGED <<side_vars, chunk_vars, crypto_vars, router_vars, cmd_queue,
                   g_security1_ctx, sec_count>>

NextHeap ==
    \/ TransportBleStart(TRUE, TRUE)
    \/ OnSync(TRUE)
    \/ GapConnect(TRUE)
    \/ TransportBleStop
    \/ MqttStartLegacy(TRUE, TRUE)
    \/ MqttConnected(TRUE)
    \/ TransportMqttStop
    \/ \E op \in HeapOps, with_payload \in BOOLEAN : HeapGattWrite(1, op, with_payload)
    \/ \E op \in HeapOps, with_payload \in BOOLEAN : HeapMqttData(2, op, with_payload)
    \/ \E scan_ok \in BOOLEAN : HeapTask(scan_ok)
    \/ HeapBleTx
    \/ HeapMqttTx

\* the three tasks run whenever they have something to take
SpecHeap ==
    Init /\ [][NextHeap]_vars
    /\ WF_vars(\E scan_ok \in BOOLEAN : HeapTask(scan_ok))
    /\ WF_vars(HeapBleTx) /\ WF_vars(HeapMqttTx)

\* C33: for a command whose op matches no handler the router enqueues
\* exactly one response, with the command's id and origin, status -1,
\* is_final and no payload, and it has freed the command's payload.
C33_UnknownOpResponse ==
    (heap_last.op = "route" /\ heap_last.cmd_op = "other") =>
        /\ heap_last.queued = 1
        /\ heap_last.resp = <<[id |-> heap_last.cmd_id, origin |-> heap_last.cmd_origin,
                               is_final |-> TRUE, status |-> 0 - 1,
                               payload |-> NullPayload]>>
        /\ heap_last.cmd_freed

\* the payloads that an entry of a queue points to
Queued ==
    {cmd_queue[i].payload : i \in 1..Len(cmd_queue)}
        \cup {respQueue_BLE[i].payload : i \in 1..Len(respQueue_BLE)}
        \cup {respQueue_MQTT[i].payload : i \in 1..Len(respQueue_MQTT)}

\* C38: every payload attached to a command or a response is freed exactly
\* once: none is freed twice, and one not freed yet is still in a queue.
C38_ReleasedExactlyOnce ==
    \A p \in 1..Len(heap) :
        /\ heap[p] <= 1
        /\ heap[p] = 0 => p \in Queued

\* C34: after transport_mqtt_stop the responses pending in the MQTT
\* response queue are taken from it and dropped.
C34_StopDropsPending ==
    (sec_last.op = "transport_stop" /\ Len(respQueue_MQTT) > 0)
        ~> (Len(respQueue_MQTT) = 0)

\* the handshake messages of a peer that knows the published device public
\* key and device_random: a SESSION_ESTABLISH, and SESSION_VERIFY tokens
\* encrypted under the session key and under 32 zero bytes
KeyMessages ==
    {[data_length |-> 35, version |-> 1, msg_type |-> 1, field |-> 32, key |-> 1,
      token |-> [key |-> ZeroKey, iv |-> 0, plain |-> 0]]}
    \cup
    [data_length : {36}, version : {1}, msg_type : {2}, field : {32}, key : {0},
     token : {[key |-> k, iv |-> g_security1_ctx.device_random,
               plain |-> g_security1_ctx.device_public_key] :
                 k \in {g_security1_ctx.session_key, ZeroKey}}]

\* the outcomes of the key generation steps of SESSION_ESTABLISH
KeyEnvs == [keygen : {"ok", "shared_failed"}, pub_ok : {TRUE}, sub_ok : BOOLEAN]

\* session start, stop and inbound handshake messages
NextKey ==
    \/ MqttStartWithSecurity1("ok", TRUE, TRUE, TRUE)
    \/ \E ok \in BOOLEAN : MqttConnected(ok)
    \/ SessionStop
    \/ TransportMqttStop
    \/ \E msg \in KeyMessages, env \in KeyEnvs : MqttData("handshake_rx", msg, <<>>, env)

SpecKey == Init /\ [][NextKey]_vars

\* C35: whenever the session state is SESSION_ACTIVE the session key is
\* valid (it was derived by a SESSION_ESTABLISH of the running session); a
\* SESSION_VERIFY is not accepted when no session key has been derived.
C35_ActiveHasSessionKey ==
    g_security1_ctx.state = "SESSION_ACTIVE" => g_security1_ctx.session_key_valid

\* C36: for chunks that pass the header checks, also when the chunks of one
\* frame_id carry different total_chunks values or a size other than the
\* effective chunk size, a call of chunk_manager_process never reads or
\* writes outside the context buffer or the completed-frame buffer.
C36_ReassemblyInBounds == cm_last.via = "api" => ~cm_last.oob

(***************************************************************************)
(* The Security1 dual service of the BLE transport (SpecOper): the start   *)
(* with Security1, the session events delivered to the transport and the   *)
(* switch to the operational service.                                      *)
(***************************************************************************)

\* the session states a transition delivers to the registered callback
EventStates ==
    {"TRANSPORT_READY", "HANDSHAKE_PENDING", "HANDSHAKE_COMPLETE", "SESSION_ACTIVE",
     "ERROR", "STOPPING", "IDLE"}

\* the Security1 variables of the BLE transport together with ble_state
BleSec1 == [sec1 |-> ble_sec1, ble_state |-> ble_state]

\* xSemaphoreTake(security1_mutex, timeout) by `task` while `holder` holds
\* the mutex ("none": free).  security1_mutex is made by
\* xSemaphoreCreateMutex and is not recursive: a task that takes it again
\* waits for itself and the call fails when the timeout is over.
xSemaphoreTakeMutex(holder, task) == holder = "none"

\* transport_ble_transition_to_operational called by `task` while `holder`
\* holds security1_mutex
transport_ble_transition_to_operational(b, holder, task) ==
    IF ~b.sec1.security1_enabled
    THEN [ret |-> ESP_ERR_INVALID_STATE, b |-> b, self_wait |-> FALSE]
    ELSE IF ~xSemaphoreTakeMutex(holder, task)
    THEN [ret |-> ESP_ERR_TIMEOUT, b |-> b, self_wait |-> holder = task]
    ELSE [ret |-> ESP_OK,
          b |-> [b EXCEPT !.sec1.handshake_service_active = FALSE,
                          !.sec1.operational_service_active = TRUE,
                          !.ble_state = "BLE_OPERATIONAL"],
          self_wait |-> FALSE]

\* transport_ble_security1_event_callback(state, user_data) run by `task`,
\* security1_mutex being free when it is called: the callback holds the
\* mutex from its first lines to its last
transport_ble_security1_event_callback(b, state, task) ==
    LET b0 == [b EXCEPT !.sec1.security1_state = state]
        plain(bb) == [b |-> bb, ret |-> "none", self_wait |-> FALSE]
    IN  CASE state = "HANDSHAKE_COMPLETE" ->
                 LET r == transport_ble_transition_to_operational(b0, task, task)
                 IN  [b |-> IF r.ret = ESP_OK
                            THEN [r.b EXCEPT !.ble_state = "BLE_OPERATIONAL"]
                            ELSE r.b,
                      ret |-> r.ret, self_wait |-> r.self_wait]
          [] state = "SESSION_ACTIVE" ->
                 plain([b0 EXCEPT !.ble_state = "BLE_ENCRYPTED_COMM",
                                  !.sec1.operational_service_active = TRUE])
          [] state = "TRANSPORT_READY" ->
                 plain([b0 EXCEPT !.ble_state = "BLE_SECURITY1_HANDSHAKE",
                                  !.sec1.handshake_service_active = TRUE])
          [] state = "ERROR" ->
                 plain(IF b0.sec1.fallback_to_legacy
                       THEN [b0 EXCEPT !.ble_state = "BLE_UP",
                                       !.sec1.security1_enabled = FALSE]
                       ELSE [b0 EXCEPT !.ble_state = "BLE_ERROR"])
          [] OTHER -> plain(b0)

\* what the actions of the dual service leave unchanged
oper_rest ==
    <<chunk_vars, cmd_queue, mqtt, sec_last, sec_count, crypto_vars, respQueue_BLE,
      respQueue_MQTT, router_last, tx_last, lock_vars, reasm_vars, send_vars, time_vars,
      frameid_vars, em_vars, health_vars, emlock_vars, backoff_vars, bp_vars, heap_vars>>

\* transport_ble_start_with_security1(cmdQueue, respQueue, sec1_config) with
\* valid parameters: transport_ble_init, the mutex, transport_ble_start, then
\* security1_session_start with the callback of the BLE transport, which is
\* called for TRANSPORT_STARTING and, when the transport starts,
\* TRANSPORT_READY.  outcome: as for security1_session_start_transport;
\* fallback: sec1_config->fallback_to_legacy.
TransportBleStartWithSecurity1(outcome, fallback) ==
    /\ LET cm == chunk_manager_init_config(cm_config, DefaultMtu - AttOverhead, TRUE)
       IN  /\ cm_config' = cm.cm
           /\ chunk_manager_initialized' = (cm.err = ESP_OK)
    /\ current_conn' = BLE_HS_CONN_HANDLE_NONE
    /\ negotiated_mtu' = DefaultMtu
    /\ advertising_timer' = FALSE
    /\ gap_last' = [op |-> "start", failed |-> FALSE]
    /\ LET r == security1_session_start(
                    [ctx |-> g_security1_ctx, mq |-> mqtt], AppPop, outcome)
           idle == g_security1_ctx.state = "IDLE"
           b0 == [sec1 |-> [ble_sec1 EXCEPT !.security1_mutex = TRUE,
                                            !.fallback_to_legacy = fallback,
                                            !.event_callback = @ \/ idle],
                  ble_state |-> "BLE_STARTING"]
           b1 == IF idle
                 THEN transport_ble_security1_event_callback(
                          b0, "TRANSPORT_STARTING", "caller").b
                 ELSE b0
           b2 == IF idle /\ r.ret = ESP_OK
                 THEN transport_ble_security1_event_callback(
                          b1, "TRANSPORT_READY", "caller").b
                 ELSE b1
           b3 == [b2 EXCEPT !.sec1.security1_enabled = (r.ret = ESP_OK)]
       IN  /\ g_security1_ctx' = r.st.ctx
           /\ ble_sec1' = b3.sec1
           /\ ble_state' = b3.ble_state
           /\ oper_last' = [op |-> "start", state |-> b3.sec1.security1_state,
                            ret |-> IF r.ret # ESP_OK /\ fallback THEN ESP_OK ELSE r.ret,
                            self_wait |-> FALSE]
    /\ UNCHANGED <<advertising_backoff_ms, oper_rest>>

\* security1_session_transition_state(new_state) of a session started by
\* the BLE transport: the state is stored and the callback is called.  The
\* handshake states follow a transport that has started.
Security1Event(state) ==
    /\ ble_sec1.event_callback
    /\ g_security1_ctx.event_callback
    /\ state \in {"STOPPING", "IDLE", "ERROR"} \/ g_security1_ctx.protocomm_instance
    /\ LET r == transport_ble_security1_event_callback(BleSec1, state, "session")
       IN  /\ ble_sec1' = r.b.sec1
           /\ ble_state' = r.b.ble_state
           /\ oper_last' = [op |-> "event", state |-> state, ret |-> r.ret,
                            self_wait |-> r.self_wait]
    /\ g_security1_ctx' = [g_security1_ctx EXCEPT !.state = state]
    /\ UNCHANGED <<gap_vars, oper_rest>>

\* transport_ble_transition_to_operational called by the application,
\* security1_mutex being free
TransitionToOperational ==
    /\ ble_sec1.security1_mutex
    /\ LET r == transport_ble_transition_to_operational(BleSec1, "none", "app")
       IN  /\ ble_sec1' = r.b.sec1
           /\ ble_state' = r.b.ble_state
           /\ oper_last' = [op |-> "transition", state |-> ble_sec1.security1_state,
                            ret |-> r.ret, self_wait |-> r.self_wait]
    /\ UNCHANGED <<gap_vars, g_security1_ctx, oper_rest>>

NextOper ==
    \/ \E outcome \in {"ok", "no_protocomm"}, fallback \in BOOLEAN :
           TransportBleStartWithSecurity1(outcome, fallback)
    \/ \E state \in EventStates : Security1Event(state)
    \/ TransitionToOperational

SpecOper == Init /\ [][NextOper]_vars

\* C37: when the HANDSHAKE_COMPLETE event has been delivered to the BLE
\* transport, no lock was waited for by the thread that holds it, the
\* transition did not time out on security1_mutex, and ble_state is
\* BLE_OPERATIONAL.
C37_HandshakeCompleteGoesOperational ==
    (oper_last.op = "event" /\ oper_last.state = "HANDSHAKE_COMPLETE") =>
        /\ ~oper_last.self_wait
        /\ oper_last.ret # ESP_ERR_TIMEOUT
        /\ ble_state = "BLE_OPERATIONAL"

(***************************************************************************)
(* The reassembler in the running firmware (SpecRun): its only caller is   *)
(* the GATT write handler; nothing calls chunk_manager_cleanup_expired.    *)
(***************************************************************************)

\* the chunks of two-chunk frames a peer writes, for one frame more than
\* there are contexts
RunChunks == {c \in ReasmChunks : c.total_chunks = 2 /\ c.chunk_size = EffectiveSize}

\* slot i holds a context older than the reassembly timeout
Abandoned(i) ==
    /\ cm_contexts[i].active
    /\ Expired(U32Sub(get_timestamp_ms, cm_contexts[i].timestamp_ms))

NextRun ==
    \/ \E w \in RunChunks : GattWrite(w)
    \/ \E d \in TickSteps : Tick(d)

\* the timer advances whatever the peer does
SpecRun == Init /\ [][NextRun]_vars /\ WF_vars(\E d \in TickSteps : Tick(d))

\* C39: in the running firmware a reassembly context older than the
\* reassembly timeout is eventually released, so abandoned partial frames do
\* not hold their slots forever.
C39_AbandonedContextReleased ==
    \A i \in 1..MaxConcurrentFrames : Abandoned(i) ~> ~cm_contexts[i].active

\* C40: the back-pressure delay is 50 ms to 2 s before the jitter, from the
\* first failure after boot on: after a recorded failure the stored delay,
\* jitter of less than a tenth included, is at least 50 ms and below 2.2 s,
\* and the jitter computation never takes a remainder by zero.
C40_DelayWithinBounds ==
    /\ bp_call.pc # "trap"
    /\ bp_state.consecutive_failures > 0 =>
           /\ bp_state.backoff_delay_ms >= RETRY_BACKOFF_INITIAL_MS
           /\ bp_state.backoff_delay_ms <
                  RETRY_BACKOFF_MAX_MS + RETRY_BACKOFF_MAX_MS \div 10
=============================================================================
